---- MODULE Spec2Model ----
(***************************************************************************)
(* A model of the parfait-gfa graph builder (GfaParser): the four-pass     *)
(* loader, the namespace registry, the bridge reconciliation engine, the   *)
(* path / walk parsers and the serializer, as a state machine.             *)
(*                                                                         *)
(* Splitting, suffix stripping, number parsing and formatting of text are  *)
(* computed character by character, the way the code computes them.        *)
(***************************************************************************)
EXTENDS Integers, Sequences, FiniteSets, TLC

\* ------------------------------------------------------------------ bounds
\* the longest file handed to load (physical lines)
MaxFileLen == 2
\* the number of caller operations (load, add_line, write_to_file) on a run
MaxOps == 3

\* ------------------------------------------------------------ Option, maps
None == [some |-> FALSE]
Some(x) == [some |-> TRUE, v |-> x]

\* let x = ...; the value is computed once and named by the parameter of F
Let(x, F(_)) == F(x)

EmptyMap == <<>>
MapHas(m, k) == k \in DOMAIN m
MapPut(m, k, v) == [x \in (DOMAIN m) \cup {k} |-> IF x = k THEN v ELSE m[x]]
MapGet(m, k) == IF k \in DOMAIN m THEN Some(m[k]) ELSE None

\* -------------------------------------------------------------------- text
\* A text is a string; Len, \o and SubSeq act on its characters.
Ch(s, i) == SubSeq(s, i, i)
Prefix(s, n) == SubSeq(s, 1, n)
\* chars().take(n)
Take(s, n) == IF Len(s) <= n THEN s ELSE SubSeq(s, 1, n)
From(s, i) == SubSeq(s, i, Len(s))
DigitChars == <<"0", "1", "2", "3", "4", "5", "6", "7", "8", "9">>
IsDigit(c) == \E i \in 1..10 : DigitChars[i] = c
DigitVal(c) == (CHOOSE i \in 1..10 : DigitChars[i] = c) - 1
UpperChars == {"A", "B", "C", "D", "E", "F", "G", "H", "I", "J", "K", "L", "M",
               "N", "O", "P", "Q", "R", "S", "T", "U", "V", "W", "X", "Y", "Z"}
LowerChars == {"a", "b", "c", "d", "e", "f", "g", "h", "i", "j", "k", "l", "m",
               "n", "o", "p", "q", "r", "s", "t", "u", "v", "w", "x", "y", "z"}
\* the ASCII characters 33..95 and 97..126 in code order (the character 96
\* cannot be written in a text of this notation)
AsciiLow == "!\"#$%&'()*+,-./0123456789:;<=>?@ABCDEFGHIJKLMNOPQRSTUVWXYZ[\\]^_"
AsciiHigh == "abcdefghijklmnopqrstuvwxyz{|}~"
\* char::is_ascii_graphic
IsGraphic(c) ==
    \/ \E i \in 1..Len(AsciiLow) : Ch(AsciiLow, i) = c
    \/ \E i \in 1..Len(AsciiHigh) : Ch(AsciiHigh, i) = c
\* the byte of an ASCII character (space, tab and the graphic characters)
ByteOf(c) ==
    IF c = " " THEN 32 ELSE IF c = "\t" THEN 9
    ELSE IF \E i \in 1..Len(AsciiLow) : Ch(AsciiLow, i) = c
    THEN 32 + (CHOOSE i \in 1..Len(AsciiLow) : Ch(AsciiLow, i) = c)
    ELSE 96 + (CHOOSE i \in 1..Len(AsciiHigh) : Ch(AsciiHigh, i) = c)
IsAlnum(c) == IsDigit(c) \/ c \in UpperChars \/ c \in LowerChars

RECURSIVE SplitOn(_, _)
\* str::split on any of the characters seps: an empty text gives one empty piece
SplitOn(s, seps) ==
    IF s = "" THEN <<"">>
    ELSE LET rest == SplitOn(From(s, 2), seps)
         IN  IF Ch(s, 1) \in seps
             THEN <<"">> \o rest
             ELSE <<Ch(s, 1) \o Head(rest)>> \o Tail(rest)

RECURSIVE SplitN(_, _, _)
\* str::splitn(n, sep): at most n pieces, the last one holding the rest
SplitN(s, n, sep) ==
    IF n <= 1 \/ ~(\E i \in 1..Len(s) : Ch(s, i) = sep) THEN <<s>>
    ELSE LET i == CHOOSE j \in 1..Len(s) :
                      Ch(s, j) = sep /\ \A k \in 1..(j - 1) : Ch(s, k) # sep
         IN  <<Prefix(s, i - 1)>> \o SplitN(From(s, i + 1), n - 1, sep)

RECURSIVE Join(_, _)
\* [String]::join(sep)
Join(pieces, sep) ==
    IF pieces = <<>> THEN ""
    ELSE IF Len(pieces) = 1 THEN pieces[1]
    ELSE pieces[1] \o sep \o Join(Tail(pieces), sep)

EndsWith(s, c) == s # "" /\ Ch(s, Len(s)) = c
StartsWith(s, c) == s # "" /\ Ch(s, 1) = c
\* str::strip_suffix(c)
StripSuffix(s, c) == IF EndsWith(s, c) THEN Some(Prefix(s, Len(s) - 1)) ELSE None

RECURSIVE TrimEndMatches(_, _)
\* str::trim_end_matches(set of chars)
TrimEndMatches(s, cs) ==
    IF s # "" /\ Ch(s, Len(s)) \in cs THEN TrimEndMatches(Prefix(s, Len(s) - 1), cs) ELSE s

\* str::contains(pat)
Contains(s, pat) ==
    \E i \in 1..(Len(s) - Len(pat) + 1) : SubSeq(s, i, i + Len(pat) - 1) = pat

RECURSIVE NatVal(_)
NatVal(s) == IF s = "" THEN 0 ELSE 10 * NatVal(Prefix(s, Len(s) - 1)) + DigitVal(Ch(s, Len(s)))
AllDigits(s) == s # "" /\ \A i \in 1..Len(s) : IsDigit(Ch(s, i))

RECURSIVE StripZeros(_)
StripZeros(s) == IF Len(s) > 1 /\ Ch(s, 1) = "0" THEN StripZeros(From(s, 2)) ELSE s
\* whether the decimal numeral ds is at most the numeral lim (digit by digit,
\* so that the comparison itself stays inside the checker's integers)
NumeralAtMost(ds, lim) ==
    LET d == StripZeros(ds)
    IN  \/ Len(d) < Len(lim)
        \/ /\ Len(d) = Len(lim)
           /\ \/ d = lim
              \/ \E i \in 1..Len(d) :
                     /\ DigitVal(Ch(d, i)) < DigitVal(Ch(lim, i))
                     /\ \A k \in 1..(i - 1) : Ch(d, k) = Ch(lim, k)

\* str::parse::<i32>(): an optional sign, then decimal digits, within 32 bits
ParseI32(s) ==
    LET signed == s # "" /\ Ch(s, 1) \in {"+", "-"}
        neg == signed /\ Ch(s, 1) = "-"
        body == IF signed THEN From(s, 2) ELSE s
    IN  IF AllDigits(body) /\ NumeralAtMost(body, IF neg THEN "2147483648" ELSE "2147483647")
        THEN Some(IF ~neg THEN NatVal(body)
                  ELSE IF StripZeros(body) = "2147483648" THEN (0 - 2147483647) - 1
                  ELSE 0 - NatVal(body))
        ELSE None

\* str::parse::<u32>(): an optional +, then decimal digits, within 32 bits
\* (numerals above 2^31 - 1 do not occur in the model's texts)
ParseU32(s) ==
    LET body == IF s # "" /\ Ch(s, 1) = "+" THEN From(s, 2) ELSE s
    IN  IF AllDigits(body) /\ NumeralAtMost(body, "4294967295") THEN Some(NatVal(body)) ELSE None

RECURSIVE NatToStr(_)
NatToStr(n) == IF n < 10 THEN DigitChars[n + 1] ELSE NatToStr(n \div 10) \o DigitChars[(n % 10) + 1]
\* Display of an integer
IntToStr(n) == IF n < 0 THEN "-" \o NatToStr(0 - n) ELSE NatToStr(n)

\* ------------------------------------------------------------- diagnostics
\* ParseMessage::new
Msg(line, code, offender) == [line |-> line, code |-> code, offender |-> offender]

FatalCodes == {"IOError", "DirectoryError", "UnspecifiedError"}
ErrorCodes == {"InvalidLine", "BridgeGoesNowhere", "InvalidWalk", "InvalidPath",
               "InvalidDirectedReference", "InvalidIntervalPosition"}
InfoCodes == {"UnknownLine", "IsolatedSegment", "DeadEndTip"}
WarnCodes == {"InvalidOptionalFieldType", "InvalidOptionalFieldTag",
              "InvalidOptionalFieldReservedTagType", "UnexpectedReservedTagType",
              "OptionalFieldValueEmpty", "MissingVersionTag", "DuplicateHeader",
              "MissingHeader", "HeaderNotOnFirstLine", "RedundantSegmentLengthTag",
              "RedundantSegmentLengthTagMismatch", "SelfContainment", "SelfBridge",
              "OverlappingWalkRange", "WalkLinkHasOverlap", "RedundantEdgeIDTag",
              "EdgeIDTagUsedInAnonEdge"}
\* ParseMessage::severity: the first component of get_message
severity(m) ==
    IF m.code \in FatalCodes THEN "Fatal"
    ELSE IF m.code \in ErrorCodes THEN "Error"
    ELSE IF m.code \in WarnCodes THEN "Warn"
    ELSE IF m.code \in InfoCodes THEN "Info"
    ELSE "Severe"

\* the elements of a sequence that satisfy Test, in order (Iterator::filter)
SelectMsgs(ms, sev) == SelectSeq(ms, LAMBDA m : severity(m) = sev)
HasFatal(ms) == \E i \in 1..Len(ms) : severity(ms[i]) = "Fatal"

\* ------------------------------------------------------ options, versions
MissingSegmentOptions == {"CreateGhost", "SoftSkip", "HardSkip", "Ignore"}
MissingBridgeOptions == {"CreateGhostLink", "HardSkip", "Ignore"}
\* ParseOptions::default
DefaultOptions ==
    [skip_invalid_sequence_test |-> FALSE, store_raw_lines |-> FALSE,
     store_sequences |-> TRUE, substitute_path_overlaps |-> TRUE,
     handle_missing_segment |-> "CreateGhost",
     handle_missing_bridge |-> "CreateGhostLink",
     allow_implicit_links |-> TRUE]

GFAVersions == {"V1", "V1_1", "V1_2", "V2", "Unknown"}
\* impl From<String> for GFAVersion
VersionFromString(s) ==
    IF s = "1.0" THEN "V1"
    ELSE IF s = "1.1" THEN "V1_1"
    ELSE IF s = "1.2" THEN "V1_2"
    ELSE IF s = "2.0" THEN "V2"
    ELSE "Unknown"
\* impl Display for GFAVersion
VersionToString(v) ==
    IF v = "V1" THEN "1.0"
    ELSE IF v = "V1_1" THEN "1.1"
    ELSE IF v = "V1_2" THEN "1.2"
    ELSE IF v = "V2" THEN "2.0"
    ELSE "1.0"

\* ------------------------------------------------------------- name checks
\* utils::is_valid_name
is_valid_name(name) ==
    /\ \A i \in 1..Len(name) : IsGraphic(Ch(name, i))
    /\ name # ""
    /\ ~Contains(name, " ")
    /\ ~Contains(name, "+,")
    /\ ~Contains(name, "-,")
    /\ ~StartsWith(name, "*")
    /\ ~StartsWith(name, "=")

CigarOps == {"M", "I", "D", "N", "S", "H", "P", "X", "="}
RECURSIVE is_valid_cigar(_)
\* utils::is_valid_cigar: (digits operator)*, the empty text included
is_valid_cigar(cigar) ==
    IF cigar = "" THEN TRUE
    ELSE IF ~IsDigit(Ch(cigar, 1)) THEN FALSE
    ELSE LET nd == CHOOSE k \in 1..Len(cigar) :
                       /\ \A j \in 1..k : IsDigit(Ch(cigar, j))
                       /\ (k = Len(cigar) \/ ~IsDigit(Ch(cigar, k + 1)))
         IN  IF nd < Len(cigar) /\ Ch(cigar, nd + 1) \in CigarOps
             THEN is_valid_cigar(From(cigar, nd + 2))
             ELSE FALSE

\* utils::is_valid_trace: <int>(,<int>)*
is_valid_trace(trace) ==
    /\ trace # ""
    /\ LET parts == SplitOn(trace, {","})
       IN  \A i \in 1..Len(parts) : parts[i] # "" /\ ParseI32(parts[i]).some

\* ---------------------------------------------------------- optional fields
\* A tag value is [ty, val]: ty is the type character, val the decoded value
\* (A: a character, i: an integer, Z/J: a text, f: the decimal numeral,
\* H: the bytes, B: the list of numbers).
TagVal(ty, val) == [ty |-> ty, val |-> val]
FieldTypeChars == {"A", "i", "f", "Z", "J", "H", "B"}

\* get_reserved_field: the type and the record kinds of each reserved tag
ReservedFields ==
    [VN |-> [type_ |-> "Z", allowed_records |-> {"H"}],
     TS |-> [type_ |-> "i", allowed_records |-> {"H"}],
     LN |-> [type_ |-> "i", allowed_records |-> {"S"}],
     RC |-> [type_ |-> "i", allowed_records |-> {"S", "L", "C"}],
     FC |-> [type_ |-> "i", allowed_records |-> {"S", "L"}],
     KC |-> [type_ |-> "i", allowed_records |-> {"S", "L"}],
     SH |-> [type_ |-> "H", allowed_records |-> {"S"}],
     UR |-> [type_ |-> "Z", allowed_records |-> {"S"}],
     MQ |-> [type_ |-> "i", allowed_records |-> {"L"}],
     NM |-> [type_ |-> "i", allowed_records |-> {"L", "C"}],
     ID |-> [type_ |-> "Z", allowed_records |-> {"L", "C", "J"}],
     SC |-> [type_ |-> "i", allowed_records |-> {"J"}]]
get_reserved_field(tag) == MapGet(ReservedFields, tag)

\* check_optional_field_tag_context: the diagnostics (none or one)
check_optional_field_tag_context(line, record_type, tag_type, tag) ==
    LET reserved == get_reserved_field(tag)
    IN  IF ~reserved.some THEN <<>>
        ELSE IF reserved.v.type_ # tag_type
        THEN <<Msg(line, "InvalidOptionalFieldReservedTagType", tag)>>
        ELSE IF record_type \notin reserved.v.allowed_records
        THEN <<Msg(line, "UnexpectedReservedTagType", tag)>>
        ELSE <<>>

\* str::parse::<f32>() succeeds; decimal numerals only (no exponent, inf or
\* nan is written in the model's texts)
IsFloatText(s) ==
    LET body == IF s # "" /\ Ch(s, 1) \in {"+", "-"} THEN From(s, 2) ELSE s
        ps == SplitOn(body, {"."})
    IN  /\ Len(ps) <= 2
        /\ \A i \in 1..Len(ps) : \A j \in 1..Len(ps[i]) : IsDigit(Ch(ps[i], j))
        /\ \E i \in 1..Len(ps) : ps[i] # ""

\* Display (whole == FALSE) and Debug (whole == TRUE) of an f32 read from a
\* short decimal numeral
FloatToStr(s, debug) ==
    LET neg == s # "" /\ Ch(s, 1) = "-"
        body == IF s # "" /\ Ch(s, 1) \in {"+", "-"} THEN From(s, 2) ELSE s
        ps == SplitOn(body, {"."})
        int == IF ps[1] = "" THEN "0" ELSE StripZeros(ps[1])
        frac == IF Len(ps) = 2 THEN TrimEndMatches(ps[2], {"0"}) ELSE ""
    IN  (IF neg THEN "-" ELSE "") \o int \o
        (IF frac # "" THEN "." \o frac ELSE IF debug THEN ".0" ELSE "")

\* parse_optional_field_value
parse_optional_field_value(line, ftype, value) ==
    LET Mismatch == [value |-> None,
                     errors |-> <<Msg(line, "OptionalFieldValueTypeMismatch", value)>>]
    IN  IF value = ""
        THEN [value |-> None, errors |-> <<Msg(line, "OptionalFieldValueEmpty", "")>>]
        ELSE IF ftype = "A"
        THEN IF Len(value) = 1
             THEN [value |-> Some(TagVal("A", value)), errors |-> <<>>]
             ELSE Mismatch
        ELSE IF ftype = "i"
        THEN Let(ParseI32(value), LAMBDA p :
                 IF p.some THEN [value |-> Some(TagVal("i", p.v)), errors |-> <<>>]
                 ELSE Mismatch)
        ELSE IF ftype = "f"
        THEN IF IsFloatText(value)
             THEN [value |-> Some(TagVal("f", value)), errors |-> <<>>]
             ELSE Mismatch
        ELSE IF ftype \in {"Z", "J"}
        THEN [value |-> Some(TagVal(ftype, value)), errors |-> <<>>]
        ELSE IF ftype = "H"
        THEN [value |-> Some(TagVal("H", [i \in 1..Len(value) |-> ByteOf(Ch(value, i))])),
              errors |-> <<>>]
        ELSE Let(SplitOn(value, {","}), LAMBDA chunks :
             Let([i \in 1..Len(chunks) |->
                     Let(ParseI32(chunks[i]), LAMBDA p :
                         IF p.some THEN [ok |-> TRUE, k |-> "Int32", v |-> p.v]
                         ELSE IF IsFloatText(chunks[i])
                         THEN [ok |-> TRUE, k |-> "Float32", v |-> chunks[i]]
                         ELSE [ok |-> FALSE, k |-> "", v |-> chunks[i]])],
                 LAMBDA nums :
             Let(SelectSeq(nums, LAMBDA x : x.ok), LAMBDA good :
             Let(SelectSeq(nums, LAMBDA x : ~x.ok), LAMBDA bad :
                 [value |-> Some(TagVal("B", [i \in 1..Len(good) |->
                                                 [k |-> good[i].k, v |-> good[i].v]])),
                  errors |-> [i \in 1..Len(bad) |->
                                 Msg(line, "OptionalFieldValueTypeMismatch", bad[i].v)]]))))

\* impl Display for OptionalFieldValue
ValueToString(v) ==
    IF v.ty = "i" THEN IntToStr(v.val)
    ELSE IF v.ty = "f" THEN FloatToStr(v.val, FALSE)
    ELSE IF v.ty = "H"
    THEN "[" \o Join([i \in 1..Len(v.val) |-> IntToStr(v.val[i])], ", ") \o "]"
    ELSE IF v.ty = "B"
    THEN "[" \o Join([i \in 1..Len(v.val) |->
                        IF v.val[i].k = "Int32"
                        THEN "Int32(" \o IntToStr(v.val[i].v) \o ")"
                        ELSE "Float32(" \o FloatToStr(v.val[i].v, TRUE) \o ")"], ", ") \o "]"
    ELSE v.val

\* parse_optional_field: one TAG:TYPE:VALUE column
parse_optional_field(line, record_type, field) ==
    Let(SplitN(field, 3, ":"), LAMBDA it :
    LET tag == it[1]
        type_str == IF Len(it) >= 2 THEN it[2] ELSE ""
        value == IF Len(it) >= 3 THEN it[3] ELSE ""
        a == Ch(tag, 1)
        b == Ch(tag, 2)
        type_ok == Len(type_str) = 1 /\ type_str \in FieldTypeChars
        ftype == IF type_ok THEN type_str ELSE "Z"
    IN  IF tag = "" \/ type_str = ""
        THEN [field |-> None, errors |-> <<Msg(line, "InvalidOptionalField", field)>>]
        ELSE IF Len(tag) # 2
        THEN [field |-> None, errors |-> <<Msg(line, "InvalidOptionalFieldTag", tag)>>]
        ELSE
        Let(parse_optional_field_value(line, ftype, value), LAMBDA pv :
        Let((IF IsAlnum(a) /\ IsAlnum(b)
                /\ (IsDigit(b) \/ ((a \in UpperChars) = (b \in UpperChars)))
             THEN <<>>
             ELSE <<Msg(line, "InvalidOptionalFieldTag", tag)>>)
            \o (IF type_ok THEN <<>>
                ELSE <<Msg(line, "InvalidOptionalFieldType", type_str)>>)
            \o (IF a \in UpperChars
                THEN check_optional_field_tag_context(line, record_type, ftype, tag)
                ELSE <<>>)
            \o pv.errors, LAMBDA errors :
            IF pv.value.some
            THEN [field |-> Some([tag |-> tag, value |-> pv.value.v]), errors |-> errors]
            ELSE [field |-> None, errors |-> errors])))

RECURSIVE collect_from(_, _, _, _, _)
collect_from(line, rt, fields, i, acc) ==
    IF i > Len(fields) THEN acc
    ELSE Let(parse_optional_field(line, rt, fields[i]), LAMBDA pf :
             collect_from(line, rt, fields, i + 1,
                 IF ~pf.field.some
                 THEN [fields |-> acc.fields, errors |-> acc.errors \o pf.errors]
                 ELSE IF \E k \in 1..Len(acc.fields) : acc.fields[k].tag = pf.field.v.tag
                 THEN [fields |-> acc.fields,
                       errors |-> acc.errors
                                  \o <<Msg(line, "DuplicateOptionalField", pf.field.v.tag)>>
                                  \o pf.errors]
                 ELSE [fields |-> Append(acc.fields, pf.field.v),
                       errors |-> acc.errors \o pf.errors]))

\* collect_optional_fields: the fields kept (a repeated tag keeps its first
\* occurrence) and every diagnostic of every column
collect_optional_fields(line, record_type, fields) ==
    collect_from(line, IF record_type = "" THEN " " ELSE Ch(record_type, 1), fields, 1,
                 [fields |-> <<>>, errors |-> <<>>])

\* TagMap::from_vec
TagMapFromVec(tags) ==
    [t \in {tags[i].tag : i \in 1..Len(tags)} |->
        (tags[CHOOSE i \in 1..Len(tags) :
                  tags[i].tag = t /\ \A j \in (i + 1)..Len(tags) : tags[j].tag # t]).value]

\* TagMap::get::<i32>
TagGetInt(map, key) ==
    IF MapHas(map, key) /\ map[key].ty = "i" THEN Some(map[key].val) ELSE None
\* TagMap::get::<String> (String and Json values)
TagGetString(map, key) ==
    IF MapHas(map, key) /\ map[key].ty \in {"Z", "J"} THEN Some(map[key].val) ELSE None
\* str::split_whitespace
SplitWhitespace(s) == SelectSeq(SplitOn(s, {" ", "\t"}), LAMBDA w : w # "")
\* TagMap::has_flag
has_flag(map, flag) ==
    /\ MapHas(map, "PF")
    /\ map["PF"].ty = "Z"
    /\ \E i \in 1..Len(SplitWhitespace(map["PF"].val)) : SplitWhitespace(map["PF"].val)[i] = flag
\* TagMap::add_flag
add_flag(map, flag) ==
    IF MapHas(map, "PF")
    THEN IF map["PF"].ty = "Z" /\ ~has_flag(map, flag)
         THEN MapPut(map, "PF", TagVal("Z", map["PF"].val \o " " \o flag))
         ELSE map
    ELSE MapPut(map, "PF", TagVal("Z", flag))

\* ------------------------------------------------------ records, builder
\* impl Default for Segment
SegmentDefault ==
    [kind |-> "Segment", line_no |-> 0, raw |-> "", tags |-> EmptyMap,
     name |-> "Segment", sequence |-> "*", length |-> None,
     outgoing_links |-> <<>>, incoming_links |-> <<>>,
     containments |-> <<>>, contained_by |-> <<>>,
     outgoing_jumps |-> <<>>, incoming_jumps |-> <<>>,
     outgoing_edges |-> <<>>, incoming_edges |-> <<>>,
     outgoing_gaps |-> <<>>, incoming_gaps |-> <<>>,
     fragments |-> <<>>]
\* impl Default for Link
LinkDefault ==
    [kind |-> "Link", line_no |-> 0, raw |-> "", tags |-> EmptyMap,
     from_segment |-> "", from_orientation |-> TRUE,
     to_segment |-> "", to_orientation |-> TRUE, overlap |-> "*"]

BridgeKinds == {"Link", "Jump", "Containment", "Edge", "Gap"}
NamedKinds == {"Segment", "Path", "UnorderedGroup", "OrderedGroup"}

\* GfaParser::new
NewParser ==
    [records |-> <<>>, messages |-> <<>>, tag_names |-> {}, version |-> "Unknown",
     trace |-> None, namespace |-> EmptyMap, records_index |-> EmptyMap,
     namespace_index |-> EmptyMap, max_lines |-> 0]

\* Vec::push on the builder's message list
PushMsg(g, m) == [g EXCEPT !.messages = Append(@, m)]
ExtendMsgs(g, ms) == [g EXCEPT !.messages = @ \o ms]

\* GfaParser::get_available_line_no: the builder after the call; the number
\* returned is its max_lines
get_available_line_no(g) == [g EXCEPT !.max_lines = @ + 1]

\* GfaParser::ensure_name_unique: the builder after the call and the name
ensure_name_unique(g, line_no, name) ==
    IF MapHas(g.namespace, name)
    THEN LET occurrence == g.namespace[name]
             new_name == name \o "_" \o IntToStr(occurrence + 1)
             g1 == PushMsg(g, Msg(line_no, "NamespaceCollision", name))
         IN  [g |-> [g1 EXCEPT !.namespace =
                         MapPut(MapPut(@, name, occurrence + 1), new_name, 0)],
              name |-> new_name]
    ELSE [g |-> [g EXCEPT !.namespace = MapPut(@, name, 0)], name |-> name]

\* GfaParser::is_name_in_namespace
is_name_in_namespace(g, name) == MapHas(g.namespace, name)

\* GfaParser::find_record: the record stored under a line number
find_record(g, line_no) ==
    IF MapHas(g.records_index, line_no) /\ g.records_index[line_no] < Len(g.records)
    THEN Some(g.records[g.records_index[line_no] + 1])
    ELSE None
\* find_<variant>(line_no) of impl_enum_find_accessors
find_kind(g, line_no, kind) ==
    IF find_record(g, line_no).some /\ find_record(g, line_no).v.kind = kind
    THEN find_record(g, line_no)
    ELSE None
find_segment(g, line_no) == find_kind(g, line_no, "Segment")
find_link(g, line_no) == find_kind(g, line_no, "Link")

\* GfaParser::find_segment_with_name: the position (from 0) of the Segment
\* the name index gives for the name
find_segment_with_name(g, name) ==
    IF /\ MapHas(g.namespace_index, name)
       /\ g.namespace_index[name] < Len(g.records)
       /\ g.records[g.namespace_index[name] + 1].kind = "Segment"
    THEN Some(g.namespace_index[name])
    ELSE None
\* the Segment record at a position given by find_segment_with_name
SegAt(g, idx) == g.records[idx + 1]

\* GfaParser::push_record_and_update_index
push_record_and_update_index(g, parsed_line) ==
    IF ~parsed_line.some THEN g
    ELSE LET record == parsed_line.v
             g1 == IF record.kind \in NamedKinds
                   THEN [g EXCEPT !.namespace_index = MapPut(@, record.name, Len(g.records))]
                   ELSE g
         IN  [g1 EXCEPT !.records_index = MapPut(@, record.line_no, Len(g.records)),
                        !.records = Append(@, record)]

\* a ghost that is named and numbered but never pushed on the records
create_ghost_segment_unstored(g, segment_name) ==
    LET g1 == get_available_line_no(g)
        line_no == g1.max_lines
    IN  Let(ensure_name_unique(g1, line_no, segment_name), LAMBDA u :
            [g |-> u.g,
             seg |-> [SegmentDefault EXCEPT !.line_no = line_no, !.name = u.name,
                                            !.tags = add_flag(@, "ghost")]])

\* GfaParser::create_ghost_segment: the builder after the call and the ghost
create_ghost_segment(g, segment_name) ==
    LET g1 == get_available_line_no(g)
        line_no == g1.max_lines
    IN  Let(ensure_name_unique(g1, line_no, segment_name), LAMBDA u :
        Let([SegmentDefault EXCEPT !.line_no = line_no, !.name = u.name,
                                   !.tags = add_flag(@, "ghost")], LAMBDA new_seg :
            [g |-> [u.g EXCEPT !.namespace_index = MapPut(@, u.name, Len(u.g.records)),
                               !.records_index = MapPut(@, line_no, Len(u.g.records)),
                               !.records = Append(@, new_seg)],
             seg |-> new_seg]))

\* a placeholder Link that is stored without the ghost flag
create_ghost_link_unflagged(g, from_segment, from_orientation, to_segment, to_orientation, overlap) ==
    LET g1 == get_available_line_no(g)
        new_link == [LinkDefault EXCEPT !.line_no = g1.max_lines,
                                        !.from_segment = from_segment,
                                        !.from_orientation = from_orientation,
                                        !.to_segment = to_segment,
                                        !.to_orientation = to_orientation,
                                        !.overlap = overlap]
    IN  [g1 EXCEPT !.records_index = MapPut(@, new_link.line_no, Len(g1.records)),
                   !.records = Append(@, new_link)]

\* GfaParser::create_ghost_link: the builder after the call
create_ghost_link(g, from_segment, from_orientation, to_segment, to_orientation, overlap) ==
    LET g1 == get_available_line_no(g)
        new_link == [LinkDefault EXCEPT !.line_no = g1.max_lines,
                                        !.from_segment = from_segment,
                                        !.from_orientation = from_orientation,
                                        !.to_segment = to_segment,
                                        !.to_orientation = to_orientation,
                                        !.overlap = overlap,
                                        !.tags = add_flag(@, "ghost")]
    IN  [g1 EXCEPT !.records_index = MapPut(@, new_link.line_no, Len(g1.records)),
                   !.records = Append(@, new_link)]

\* a length resolution that asks the LN tag before the length column
get_length_tag_first(seg) ==
    IF TagGetInt(seg.tags, "LN").some THEN TagGetInt(seg.tags, "LN").v
    ELSE IF seg.length.some THEN seg.length.v
    ELSE IF seg.sequence # "*" /\ seg.sequence # "" THEN Len(seg.sequence)
    ELSE 0

\* Segment::get_length
get_length(seg) ==
    IF seg.length.some THEN seg.length.v
    ELSE IF TagGetInt(seg.tags, "LN").some THEN TagGetInt(seg.tags, "LN").v
    ELSE IF seg.sequence # "*" /\ seg.sequence # "" THEN Len(seg.sequence)
    ELSE 0
\* Segment::get_outgoing_bridges
get_outgoing_bridges(seg) ==
    seg.outgoing_links \o seg.outgoing_jumps \o seg.outgoing_edges
        \o seg.outgoing_gaps \o seg.containments
\* Segment::get_incoming_bridges
get_incoming_bridges(seg) ==
    seg.incoming_links \o seg.incoming_jumps \o seg.incoming_edges
        \o seg.incoming_gaps \o seg.contained_by

\* ------------------------------------------------------------ line parsers
\* What a record parser hands back: the builder after the call, the record
\* (or None), the diagnostics returned, and whether the call aborted (a Rust
\* panic: unwrap / expect / panic! reached).
Ret(g, rec, errs) == [g |-> g, rec |-> rec, errs |-> errs, panic |-> FALSE]
Abort(g) == [g |-> g, rec |-> None, errs |-> <<>>, panic |-> TRUE]

\* the adjacency list of a segment a bridge of each kind is pushed on
OutField(bridge_type) ==
    CASE bridge_type = "Link" -> "outgoing_links"
      [] bridge_type = "Jump" -> "outgoing_jumps"
      [] bridge_type = "Containment" -> "containments"
      [] bridge_type = "Edge" -> "outgoing_edges"
      [] bridge_type = "Gap" -> "outgoing_gaps"
InField(bridge_type) ==
    CASE bridge_type = "Link" -> "incoming_links"
      [] bridge_type = "Jump" -> "incoming_jumps"
      [] bridge_type = "Containment" -> "contained_by"
      [] bridge_type = "Edge" -> "incoming_edges"
      [] bridge_type = "Gap" -> "incoming_gaps"
\* Vec::push of a line number on one adjacency list of the segment at idx
PushAdjacent(g, idx, field, n) == [g EXCEPT !.records[idx + 1][field] = Append(@, n)]

\* a registration that pushes the line number on the opposite lists
register_bridge_crossed(g, bridge_type, from_segment, to_segment, n) ==
    LET from == find_segment_with_name(g, from_segment)
        g1 == IF from.some THEN PushAdjacent(g, from.v, InField(bridge_type), n) ELSE g
        to == find_segment_with_name(g1, to_segment)
    IN  IF to.some THEN PushAdjacent(g1, to.v, OutField(bridge_type), n) ELSE g1

\* bridge.rs, the registration of the bridge on its two endpoint segments
register_bridge(g, bridge_type, from_segment, to_segment, n) ==
    LET from == find_segment_with_name(g, from_segment)
        g1 == IF from.some THEN PushAdjacent(g, from.v, OutField(bridge_type), n) ELSE g
        to == find_segment_with_name(g1, to_segment)
    IN  IF to.some THEN PushAdjacent(g1, to.v, InField(bridge_type), n) ELSE g1

\* bridge::parse_generic_bridge: the builder, the bridge (or None), the
\* diagnostics returned and the tag map after the call
parse_generic_bridge(g, parts, raw, n, map, options) ==
    LET bridge_type == parts.bridge_type
        p_from_segment_none == ~find_segment_with_name(g, parts.from_segment).some
        p_to_segment_none == ~find_segment_with_name(g, parts.to_segment).some
        e1 == (IF p_from_segment_none
               THEN <<Msg(n, "SegmentNotFound", parts.from_segment)>> ELSE <<>>)
              \o (IF p_to_segment_none
                  THEN <<Msg(n, "SegmentNotFound", parts.to_segment)>> ELSE <<>>)
              \o (IF p_from_segment_none /\ p_to_segment_none
                  THEN <<Msg(n, "BridgeGoesNowhere",
                             "(" \o bridge_type \o ") / " \o parts.from_segment
                                 \o " and " \o parts.to_segment)>>
                  ELSE <<>>)
        missing == p_from_segment_none \/ p_to_segment_none
        skip == missing /\ options.handle_missing_segment \in {"SoftSkip", "HardSkip"}
        ghosts == missing /\ options.handle_missing_segment = "CreateGhost"
        e2 == (IF parts.from_orientation # "-" /\ parts.from_orientation # "+"
               THEN <<Msg(n, "InvalidOrientation", parts.from_orientation)>> ELSE <<>>)
              \o (IF parts.to_orientation # "-" /\ parts.to_orientation # "+"
                  THEN <<Msg(n, "InvalidOrientation", parts.to_orientation)>> ELSE <<>>)
        edge_id == IF bridge_type \in {"Edge", "Gap"} THEN None ELSE TagGetString(map, "ID")
        e4 == IF parts.overlap.some /\ parts.overlap.v # "*" /\ ~is_valid_cigar(parts.overlap.v)
              THEN <<Msg(n, "InvalidCIGAR", parts.overlap.v)>>
              ELSE <<>>
    IN  IF skip
        THEN [g |-> g, bridge |-> None, errs |-> e1, map |-> map]
        ELSE
        Let(IF ghosts /\ p_from_segment_none
            THEN create_ghost_segment(g, parts.from_segment)
            ELSE [g |-> g, seg |-> [name |-> parts.from_segment]], LAMBDA gf :
        Let(IF ghosts /\ p_to_segment_none
            THEN create_ghost_segment(gf.g, parts.to_segment)
            ELSE [g |-> gf.g, seg |-> [name |-> parts.to_segment]], LAMBDA gt :
        Let(register_bridge(gt.g, bridge_type, gf.seg.name, gt.seg.name, n), LAMBDA g3 :
        Let(IF ~edge_id.some THEN [g |-> g3, map |-> map]
            ELSE IF ~is_valid_name(edge_id.v)
            THEN [g |-> PushMsg(g3, Msg(n, "InvalidID", edge_id.v)), map |-> map]
            ELSE Let(ensure_name_unique(g3, n, edge_id.v), LAMBDA uid :
                     [g |-> uid.g, map |-> MapPut(map, "ID", TagVal("Z", uid.name))]),
            LAMBDA named :
            [g |-> named.g,
             bridge |-> Some([from_segment |-> gf.seg.name,
                              from_orientation |-> parts.from_orientation # "-",
                              to_segment |-> gt.seg.name,
                              to_orientation |-> parts.to_orientation # "-"]),
             errs |-> e1 \o e2
                      \o (IF gf.seg.name = gt.seg.name
                          THEN <<Msg(n, IF bridge_type = "Containment" THEN "SelfContainment"
                                        ELSE "SelfBridge", raw)>>
                          ELSE <<>>)
                      \o e4,
             map |-> named.map]))))

\* Link::parse_line
Link_parse_line(g, parts, raw, n, map, options) ==
    Let(parse_generic_bridge(g,
            [bridge_type |-> "Link", from_segment |-> parts[2],
             from_orientation |-> parts[3], to_segment |-> parts[4],
             to_orientation |-> parts[5], overlap |-> Some(parts[6])],
            raw, n, map, options), LAMBDA b :
        IF ~b.bridge.some THEN Ret(b.g, None, b.errs)
        ELSE Ret(b.g,
                 Some([kind |-> "Link", line_no |-> n, raw |-> raw, tags |-> b.map,
                       from_segment |-> b.bridge.v.from_segment,
                       from_orientation |-> b.bridge.v.from_orientation,
                       to_segment |-> b.bridge.v.to_segment,
                       to_orientation |-> b.bridge.v.to_orientation,
                       overlap |-> parts[6]]),
                 b.errs))

ValidVersions == {"1", "1.0", "1.1", "1.2", "2", "2.0"}
\* Header::parse_line
Header_parse_line(g, parts, raw, n, map, options) ==
    LET is_duplicate_header == \E i \in 1..Len(g.records) : g.records[i].kind = "Header"
        e1 == IF is_duplicate_header THEN <<Msg(n, "DuplicateHeader", raw)>> ELSE <<>>
        unknown == /\ MapHas(map, "VN")
                   /\ ~(TagGetString(map, "VN").some
                        /\ TagGetString(map, "VN").v \in ValidVersions)
        map1 == IF unknown THEN MapPut(map, "VN", TagVal("Z", "1.0")) ELSE map
        e2 == IF unknown THEN <<Msg(n, "UnknownVersion", raw)>> ELSE <<>>
        no_vn == ~TagGetString(map1, "VN").some
        map2 == IF no_vn THEN MapPut(map1, "VN", TagVal("Z", "1.0")) ELSE map1
        e3 == IF no_vn THEN <<Msg(n, "MissingVersionTag", raw)>> ELSE <<>>
        g1 == IF is_duplicate_header THEN g
              ELSE [g EXCEPT !.version = VersionFromString(TagGetString(map2, "VN").v),
                             !.trace = IF MapHas(map2, "TS")
                                       THEN TagGetString(map2, "TS") ELSE @]
    IN  Ret(g1,
            Some([kind |-> "Header", line_no |-> n, raw |-> raw, tags |-> map2,
                  version |-> TagGetString(map2, "VN")]),
            e1 \o e2 \o e3)

\* a Segment parser that synthesizes no length tag
Segment_parse_line_untagged(g, parts, raw, n, map, options) ==
    LET u == ensure_name_unique(g, n, parts[2])
        ln_tag == TagGetInt(map, "LN")
        version == g.version
        sequence == IF version = "V2" THEN parts[4] ELSE parts[3]
        length == IF version # "V2" THEN None
                  ELSE IF ParseI32(parts[3]).some THEN Some(ParseI32(parts[3]).v)
                  ELSE Some(Len(sequence))
        e1 == IF version = "V2"
              THEN (IF ~ParseI32(parts[3]).some
                    THEN <<Msg(n, "InvalidSequenceLength", raw)>> ELSE <<>>)
                   \o (IF ~ln_tag.some THEN <<>>
                       ELSE IF ln_tag # length
                       THEN <<Msg(n, "RedundantSegmentLengthTagMismatch", raw)>>
                       ELSE <<Msg(n, "RedundantSegmentLengthTag", raw)>>)
              ELSE IF ln_tag.some
              THEN (IF sequence # "*" /\ ln_tag.v # Len(sequence)
                    THEN <<Msg(n, "SegmentLengthMismatch", raw)>> ELSE <<>>)
              ELSE IF sequence = "*" \/ sequence = ""
              THEN <<Msg(n, "IndeterminateSegmentLength", raw)>>
              ELSE <<>>
        e2 == IF /\ ~options.skip_invalid_sequence_test
                 /\ sequence # "*"
                 /\ \E i \in 1..Len(sequence) : ~IsGraphic(Ch(sequence, i))
              THEN <<Msg(n, "InvalidSequence", raw)>>
              ELSE <<>>
        map1 == map
    IN  IF ~is_valid_name(parts[2])
        THEN Ret(g, None, <<Msg(n, "InvalidID", parts[2])>>)
        ELSE Ret(u.g,
                 Some([SegmentDefault EXCEPT
                          !.line_no = n, !.raw = raw, !.tags = map1, !.name = u.name,
                          !.sequence = IF options.store_sequences THEN sequence ELSE "*",
                          !.length = length]),
                 e1 \o e2)

\* Segment::parse_line
Segment_parse_line(g, parts, raw, n, map, options) ==
    LET u == ensure_name_unique(g, n, parts[2])
        ln_tag == TagGetInt(map, "LN")
        version == g.version
        sequence == IF version = "V2" THEN parts[4] ELSE parts[3]
        length == IF version # "V2" THEN None
                  ELSE IF ParseI32(parts[3]).some THEN Some(ParseI32(parts[3]).v)
                  ELSE Some(Len(sequence))
        e1 == IF version = "V2"
              THEN (IF ~ParseI32(parts[3]).some
                    THEN <<Msg(n, "InvalidSequenceLength", raw)>> ELSE <<>>)
                   \o (IF ~ln_tag.some THEN <<>>
                       ELSE IF ln_tag # length
                       THEN <<Msg(n, "RedundantSegmentLengthTagMismatch", raw)>>
                       ELSE <<Msg(n, "RedundantSegmentLengthTag", raw)>>)
              ELSE IF ln_tag.some
              THEN (IF sequence # "*" /\ ln_tag.v # Len(sequence)
                    THEN <<Msg(n, "SegmentLengthMismatch", raw)>> ELSE <<>>)
              ELSE IF sequence = "*" \/ sequence = ""
              THEN <<Msg(n, "IndeterminateSegmentLength", raw)>>
              ELSE <<>>
        e2 == IF /\ ~options.skip_invalid_sequence_test
                 /\ sequence # "*"
                 /\ \E i \in 1..Len(sequence) : ~IsGraphic(Ch(sequence, i))
              THEN <<Msg(n, "InvalidSequence", raw)>>
              ELSE <<>>
        map1 == IF /\ ~options.store_sequences
                   /\ ~ln_tag.some /\ version # "V2" /\ sequence # "*"
                THEN MapPut(map, "LN", TagVal("i", Len(sequence)))
                ELSE map
    IN  IF ~is_valid_name(parts[2])
        THEN Ret(g, None, <<Msg(n, "InvalidID", parts[2])>>)
        ELSE Ret(u.g,
                 Some([SegmentDefault EXCEPT
                          !.line_no = n, !.raw = raw, !.tags = map1, !.name = u.name,
                          !.sequence = IF options.store_sequences THEN sequence ELSE "*",
                          !.length = length]),
                 e1 \o e2)

\* ------------------------------------------------------------ step checks
Sign(orientation) == IF orientation THEN "+" ELSE "-"
\* impl Display for IntervalPosition, Interval, DirectedReference
PositionToStr(p) == IF p.is_last THEN IntToStr(p.position) \o "$" ELSE IntToStr(p.position)
IntervalToStr(iv) == PositionToStr(iv.begin) \o ".." \o PositionToStr(iv.end)
ReferenceToStr(r) == r.reference \o Sign(r.direction)
\* the to-segment name and the two orientations of a stored bridge
BridgeTo(b) == IF b.kind \in {"Edge", "Gap"} THEN b.to.reference ELSE b.to_segment
BridgeFromOrientation(b) ==
    IF b.kind \in {"Edge", "Gap"} THEN b.from.direction ELSE b.from_orientation
BridgeToOrientation(b) ==
    IF b.kind \in {"Edge", "Gap"} THEN b.to.direction ELSE b.to_orientation

RECURSIVE step_scan_any_orientation(_, _, _, _, _, _, _, _, _)
\* a scan that takes the first bridge to the to-segment, whatever its
\* orientations
step_scan_any_orientation(g, bridges, i, line_no, from_name, to_name, from_o, to_o, report_overlaps) ==
    IF i > Len(bridges) THEN [g |-> g, valid |-> FALSE]
    ELSE LET br == find_record(g, bridges[i])
             skip == \/ ~br.some
                     \/ br.v.kind \notin {"Link", "Jump", "Edge", "Gap"}
                     \/ BridgeTo(br.v) # to_name
         IN  IF skip
             THEN step_scan_any_orientation(g, bridges, i + 1, line_no, from_name, to_name,
                                            from_o, to_o, report_overlaps)
             ELSE [g |-> g, valid |-> TRUE]

RECURSIVE step_scan(_, _, _, _, _, _, _, _, _)
\* is_step_valid, the loop over the from-segment's outgoing bridges
step_scan(g, bridges, i, line_no, from_name, to_name, from_o, to_o, report_overlaps) ==
    IF i > Len(bridges) THEN [g |-> g, valid |-> FALSE]
    ELSE LET br == find_record(g, bridges[i])
             skip == \/ ~br.some
                     \/ br.v.kind \notin {"Link", "Jump", "Edge", "Gap"}
                     \/ BridgeTo(br.v) # to_name
                     \/ BridgeFromOrientation(br.v) # from_o
                     \/ BridgeToOrientation(br.v) # to_o
         IN  IF skip
             THEN step_scan(g, bridges, i + 1, line_no, from_name, to_name,
                            from_o, to_o, report_overlaps)
             ELSE IF report_overlaps /\ br.v.kind \notin {"Jump", "Gap"}
             THEN IF br.v.kind = "Link" /\ br.v.overlap = "0M"
                  THEN [g |-> g, valid |-> TRUE]
                  ELSE LET overlap == IF br.v.kind = "Link" THEN br.v.overlap
                                      ELSE IntervalToStr(br.v.from_interval) \o " | "
                                               \o IntervalToStr(br.v.to_interval)
                       IN  [g |-> PushMsg(g, Msg(line_no, "WalkLinkHasOverlap",
                                    from_name \o Sign(from_o) \o " -> " \o to_name
                                        \o Sign(to_o) \o " with overlap: " \o overlap)),
                            valid |-> TRUE]
             ELSE [g |-> g, valid |-> TRUE]

\* GfaParser::is_step_valid: the builder after the call and the answer
is_step_valid(g, line_no, from_segment_name, to_segment_name, from_orientation,
              to_orientation, allow_links, allow_jumps, allow_edges, allow_gaps,
              report_overlaps) ==
    LET from_segment == find_segment_with_name(g, from_segment_name)
        seg == SegAt(g, from_segment.v)
        from_segment_outgoing_bridges ==
            (IF allow_links THEN seg.outgoing_links ELSE <<>>)
            \o (IF allow_jumps THEN seg.outgoing_jumps ELSE <<>>)
            \o (IF allow_edges THEN seg.outgoing_edges ELSE <<>>)
            \o (IF allow_gaps THEN seg.outgoing_gaps ELSE <<>>)
    IN  IF ~from_segment.some THEN [g |-> g, valid |-> FALSE]
        ELSE IF ~find_segment_with_name(g, to_segment_name).some
        THEN [g |-> g, valid |-> FALSE]
        ELSE step_scan(g, from_segment_outgoing_bridges, 1, line_no, from_segment_name,
                       to_segment_name, from_orientation, to_orientation, report_overlaps)

\* -------------------------------------------------------------------- Path
\* Path::parse_line, one turn of the loop over the steps. st holds the
\* builder, the diagnostics, overlaps_str, prev_step, the steps pushed and
\* how the loop stands ("run", "dropped" = early return of None, "panic").
path_step(st, n, path_step_str, step_idx, use_overlaps, options) ==
    LET plus == StripSuffix(path_step_str, "+")
        minus == StripSuffix(path_step_str, "-")
        segment == IF plus.some THEN plus.v ELSE IF minus.some THEN minus.v ELSE path_step_str
        orientation == plus.some \/ ~minus.some
        e1 == IF ~plus.some /\ ~minus.some
              THEN <<Msg(n, "InvalidPathStepOrientation", path_step_str)>> ELSE <<>>
        in_range == use_overlaps /\ step_idx < Len(st.overlaps_str)
        real_overlap == IF in_range THEN st.overlaps_str[step_idx + 1] ELSE "@"
        st1 == [st EXCEPT !.errors = @ \o e1,
                          !.overlaps_str = IF in_range
                                           THEN [@ EXCEPT ![step_idx + 1] = "@"] ELSE @]
        opt0 == find_segment_with_name(st.g, segment)
        policy == options.handle_missing_segment
        e2 == IF opt0.some THEN <<>> ELSE <<Msg(n, "SegmentNotFound", segment)>>
    IN  IF Len(path_step_str) < 2
        THEN [st EXCEPT !.errors = Append(@, Msg(n, "InvalidPathStep", path_step_str))]
        ELSE IF segment = "" THEN st1
        ELSE
        Let(IF ~opt0.some /\ policy = "CreateGhost"
            THEN create_ghost_segment(st.g, segment).g ELSE st.g, LAMBDA g1 :
        LET opt == IF opt0.some THEN opt0 ELSE find_segment_with_name(g1, segment)
            st2 == [st1 EXCEPT !.errors = @ \o e2, !.g = g1]
            graph_segment == SegAt(g1, opt.v)
            curr_step == [segment_id |-> graph_segment.line_no, orientation |-> orientation]
            links == graph_segment.incoming_links
            prev == st.prev_step.v
            prev_step_segment == find_segment(g1, prev.segment_id)
            prev_name == prev_step_segment.v.name
            Explicit(l) == /\ l.from_segment = prev_name
                           /\ l.to_segment = graph_segment.name
                           /\ prev.orientation = l.from_orientation
                           /\ orientation = l.to_orientation
            Implicit(l) == /\ l.from_segment = prev_name
                           /\ l.to_segment = graph_segment.name
                           /\ prev.orientation = ~l.to_orientation
                           /\ orientation = ~l.from_orientation
            found == \E i \in 1..Len(links) : Explicit(find_link(g1, links[i]).v)
            found_implicit == \E i \in 1..Len(links) : Implicit(find_link(g1, links[i]).v)
            e3 == IF ~found /\ (found_implicit /\ ~options.allow_implicit_links)
                  THEN <<Msg(n, "LinkNotFound",
                             "path step: " \o prev_name \o Sign(prev.orientation) \o " -> "
                                 \o graph_segment.name \o Sign(orientation))>>
                  ELSE <<>>
            Keep(s) == [s EXCEPT !.overlaps_str = IF in_range
                                                   THEN [@ EXCEPT ![step_idx + 1] = real_overlap]
                                                   ELSE @,
                                 !.steps = Append(@, curr_step)]
        IN  IF ~opt0.some /\ policy = "HardSkip"
            THEN [st2 EXCEPT !.errors = Append(@, Msg(n, "InvalidPath", segment)),
                             !.status = "dropped"]
            ELSE IF ~opt0.some /\ policy = "SoftSkip" THEN st2
            ELSE IF ~opt.some THEN [st2 EXCEPT !.status = "panic"]
            ELSE IF ~st.prev_step.some THEN Keep([st2 EXCEPT !.prev_step = Some(curr_step)])
            ELSE IF ~prev_step_segment.some THEN st2
            ELSE IF \E i \in 1..Len(links) : ~find_link(g1, links[i]).some
            THEN [st2 EXCEPT !.status = "panic"]
            ELSE Keep([st2 EXCEPT !.errors = @ \o e3, !.prev_step = Some(curr_step)]))

RECURSIVE path_steps(_, _, _, _, _, _)
path_steps(st, n, steps_str, i, use_overlaps, options) ==
    IF i > Len(steps_str) \/ st.status # "run" THEN st
    ELSE path_steps(path_step(st, n, steps_str[i], i - 1, use_overlaps, options),
                    n, steps_str, i + 1, use_overlaps, options)

RECURSIVE path_overlaps(_, _, _, _, _, _, _)
\* Path::parse_line, the loop over overlaps_str: acc holds the overlaps kept,
\* the diagnostics and whether the loop aborted
path_overlaps(g, n, steps_str, overlaps_str, step_index, options, acc) ==
    IF step_index >= Len(overlaps_str) THEN acc
    ELSE LET overlap == overlaps_str[step_index + 1]
             Continue(a) ==
                 path_overlaps(g, n, steps_str, overlaps_str, step_index + 1, options, a)
             cur_name == TrimEndMatches(steps_str[step_index + 1], {"+", "-"})
             next_name == TrimEndMatches(steps_str[step_index + 2], {"+", "-"})
             cur == find_segment_with_name(g, cur_name)
             outgoing_links == SegAt(g, cur.v).outgoing_links
             Match(l) == /\ l.to_segment = next_name
                         /\ l.from_orientation = EndsWith(steps_str[step_index + 1], "+")
                         /\ l.to_orientation = EndsWith(steps_str[step_index + 2], "+")
             Hit(k) == Let(find_link(g, outgoing_links[k]), LAMBDA l : l.some /\ Match(l.v))
             has_hit == \E k \in 1..Len(outgoing_links) : Hit(k)
             first_hit == CHOOSE k \in 1..Len(outgoing_links) :
                              Hit(k) /\ \A j \in 1..(k - 1) : ~Hit(j)
             upto == IF has_hit THEN first_hit ELSE Len(outgoing_links)
         IN  IF overlap = "@"
             THEN Continue([acc EXCEPT !.overlaps =
                            Append(IF @ = <<>> THEN @ ELSE SubSeq(@, 1, Len(@) - 1), "*")])
             ELSE IF ~is_valid_cigar(overlap) /\ overlap # "*"
             THEN Continue([acc EXCEPT !.errors = Append(@, Msg(n, "InvalidCIGAR", overlap)),
                                       !.overlaps = Append(@, "*")])
             ELSE IF overlap = "*" /\ options.substitute_path_overlaps
             THEN IF step_index + 2 <= Len(overlaps_str) /\ overlaps_str[step_index + 2] = "@"
                  THEN acc
                  ELSE IF ~cur.some THEN [acc EXCEPT !.panic = TRUE]
                  ELSE Let(upto, LAMBDA last :
                       IF \E k \in 1..last : ~find_link(g, outgoing_links[k]).some
                       THEN [acc EXCEPT !.panic = TRUE]
                       ELSE IF ~has_hit THEN acc
                       ELSE Continue([acc EXCEPT !.overlaps =
                                Append(@, find_link(g, outgoing_links[last]).v.overlap)]))
             ELSE Continue([acc EXCEPT !.overlaps = Append(@, overlap)])

\* Path::parse_line
Path_parse_line(g, parts, raw, n, map, options) ==
    LET u == ensure_name_unique(g, n, parts[2])
        steps_str == SplitOn(parts[3], {",", ";"})
        overlaps_str == SplitOn(parts[4], {","})
        mismatch == parts[4] # "*" /\ Len(steps_str) # Len(overlaps_str) + 1
        use_overlaps == parts[4] # "*" /\ ~mismatch
        e0 == IF mismatch THEN <<Msg(n, "PathOverlapLengthMismatch", raw)>> ELSE <<>>
    IN  IF ~is_valid_name(parts[2])
        THEN Ret(g, None, <<Msg(n, "InvalidID", parts[2])>>)
        ELSE
        Let(path_steps([g |-> u.g, errors |-> e0, overlaps_str |-> overlaps_str,
                        prev_step |-> None, steps |-> <<>>, status |-> "run"],
                       n, steps_str, 1, use_overlaps, options), LAMBDA st :
            IF st.status = "panic" THEN Abort(st.g)
            ELSE IF st.status = "dropped" THEN Ret(st.g, None, st.errors)
            ELSE
            Let(IF use_overlaps
                THEN path_overlaps(st.g, n, steps_str, st.overlaps_str, 0, options,
                                   [overlaps |-> <<>>, errors |-> st.errors, panic |-> FALSE])
                ELSE [overlaps |-> <<>>, errors |-> st.errors, panic |-> FALSE], LAMBDA ov :
                IF ov.panic THEN Abort(st.g)
                ELSE Ret(st.g,
                         Some([kind |-> "Path", line_no |-> n, raw |-> raw, tags |-> map,
                               name |-> u.name, steps |-> st.steps,
                               overlaps |-> ov.overlaps]),
                         ov.errors)))

\* -------------------------------------------------------------------- Walk
\* Walk::parse_line, the end of one step inside the scan of the walk column:
\* segment_name is the name collected, c the character under the scanner
walk_step(st, n, segment_name, c, walk_str, options) ==
    LET segment == find_segment_with_name(st.g, segment_name)
        policy == options.handle_missing_segment
        bad_walk == Msg(n, "InvalidWalk", Take(walk_str, 100))
        e1 == IF segment.some THEN <<>> ELSE <<Msg(n, "SegmentNotFound", segment_name)>>
        make_ghost == ~segment.some /\ policy = "CreateGhost"
    IN  IF ~segment.some /\ policy = "HardSkip"
        THEN [st EXCEPT !.errors = @ \o e1 \o <<bad_walk>>, !.status = "dropped"]
        ELSE
        Let(IF make_ghost THEN create_ghost_segment(st.g, segment_name)
            ELSE [g |-> st.g, seg |-> SegmentDefault], LAMBDA ghost :
        LET g1 == ghost.g
            segment_id == IF segment.some THEN SegAt(st.g, segment.v).line_no
                          ELSE IF make_ghost THEN ghost.seg.line_no
                          ELSE 0
            walk_steps == IF segment_id # 0 \/ policy = "Ignore"
                          THEN Append(st.walk_steps,
                                      [segment_id |-> segment_id, orientation |-> st.dir])
                          ELSE st.walk_steps
            done == [st EXCEPT !.errors = @ \o e1, !.walk_steps = walk_steps,
                               !.name = "", !.dir = (c = ">")]
        IN  IF Len(walk_steps) < 2 THEN [done EXCEPT !.g = g1]
            ELSE
            Let([this_step |-> walk_steps[Len(walk_steps)],
                 last_step |-> walk_steps[Len(walk_steps) - 1],
                 last_seg |-> find_segment(g1, walk_steps[Len(walk_steps) - 1].segment_id)],
                LAMBDA w :
            LET last_step_name == IF w.last_seg.some THEN w.last_seg.v.name ELSE ""
                e2 == <<Msg(n, "LinkNotFound",
                            last_step_name \o Sign(w.last_step.orientation) \o " -> "
                                \o segment_name \o Sign(w.this_step.orientation))>>
            IN  Let(is_step_valid(g1, n, last_step_name, segment_name,
                                  w.last_step.orientation, w.this_step.orientation,
                                  TRUE, FALSE, FALSE, TRUE, TRUE), LAMBDA check :
                IF check.valid THEN [done EXCEPT !.g = check.g]
                ELSE IF options.handle_missing_bridge = "HardSkip"
                THEN [st EXCEPT !.g = check.g, !.errors = @ \o e1 \o e2 \o <<bad_walk>>,
                                !.status = "dropped"]
                ELSE [done EXCEPT
                         !.g = IF options.handle_missing_bridge = "CreateGhostLink"
                               THEN create_ghost_link(check.g, last_step_name,
                                        w.last_step.orientation, segment_name,
                                        w.this_step.orientation, "*")
                               ELSE check.g,
                         !.errors = @ \o e2])))

RECURSIVE walk_scan(_, _, _, _, _)
\* Walk::parse_line, the scan of the walk column character by character;
\* char_idx counts from 0 as in the code
walk_scan(st, n, walk_str, char_idx, options) ==
    IF char_idx >= Len(walk_str) \/ st.status # "run" THEN st
    ELSE LET c == Ch(walk_str, char_idx + 1)
             last == char_idx = Len(walk_str) - 1
             bad_walk == Msg(n, "InvalidWalk", Take(walk_str, 100))
             name == IF last THEN st.name \o c ELSE st.name
         IN  walk_scan(IF char_idx = 0
                       THEN IF ~(c = ">" \/ c = "<")
                            THEN [st EXCEPT !.errors = Append(@, bad_walk),
                                            !.status = "dropped"]
                            ELSE [st EXCEPT !.dir = (c = ">")]
                       ELSE IF c = ">" \/ c = "<" \/ last
                       THEN IF name # ""
                            THEN walk_step(st, n, name, c, walk_str, options)
                            ELSE [st EXCEPT !.errors = Append(@, bad_walk),
                                            !.status = "dropped"]
                       ELSE [st EXCEPT !.name = @ \o c],
                       n, walk_str, char_idx + 1, options)

\* Walk::parse_line
Walk_parse_line(g, parts, raw, n, map, options) ==
    Let([hap |-> ParseU32(parts[3]), start |-> ParseU32(parts[5]),
         end |-> ParseU32(parts[6])], LAMBDA p :
    LET sample_id == parts[2]
        hap_index == IF p.hap.some THEN p.hap.v ELSE 0
        e1 == IF p.hap.some THEN <<>> ELSE <<Msg(n, "InvalidHaplotypeIndex", parts[3])>>
        seq_id == parts[4]
        seq_start == IF p.start.some THEN p.start.v ELSE 0
        e2 == IF ~p.start.some /\ parts[5] # "*"
              THEN <<Msg(n, "InvalidSequenceStart", parts[5])>> ELSE <<>>
        seq_end == IF p.end.some THEN p.end.v ELSE 0
        e3 == IF ~p.end.some /\ parts[6] # "*"
              THEN <<Msg(n, "InvalidSequenceEnd", parts[6])>> ELSE <<>>
        e4 == IF seq_start > seq_end
              THEN <<Msg(n, "InvalidSequenceRange",
                         "start (" \o IntToStr(seq_start) \o ") > end ("
                             \o IntToStr(seq_end) \o ")")>>
              ELSE <<>>
        Clash(w) == /\ w.kind = "Walk"
                    /\ w.sample_id = sample_id /\ w.hap_index = hap_index
                    /\ w.seq_id = seq_id
                    /\ w.seq_start.some /\ w.seq_end.some
                    /\ \/ (seq_start <= w.seq_end.v /\ seq_end >= w.seq_start.v)
                       \/ (w.seq_start.v <= seq_end /\ w.seq_end.v >= seq_start)
        clashes == SelectSeq(g.records, Clash)
        e5 == [i \in 1..Len(clashes) |->
                  Msg(n, "OverlappingWalkRange",
                      sample_id \o "/" \o IntToStr(hap_index) \o "/" \o seq_id
                          \o " with range " \o IntToStr(seq_start) \o ".." \o IntToStr(seq_end)
                          \o " overlaps with " \o IntToStr(clashes[i].seq_start.v) \o ".."
                          \o IntToStr(clashes[i].seq_end.v) \o " on line "
                          \o IntToStr(clashes[i].line_no))]
    IN  Let(walk_scan([g |-> g, errors |-> e1 \o e2 \o e3 \o e4 \o e5, walk_steps |-> <<>>,
                       name |-> "", dir |-> FALSE, status |-> "run"],
                      n, parts[7], 0, options), LAMBDA st :
        IF st.status = "dropped" THEN Ret(st.g, None, st.errors)
        ELSE Ret(st.g,
                 Some([kind |-> "Walk", line_no |-> n, raw |-> raw, tags |-> map,
                       sample_id |-> sample_id, hap_index |-> hap_index, seq_id |-> seq_id,
                       seq_start |-> IF p.start.some THEN Some(seq_start) ELSE None,
                       seq_end |-> IF p.end.some THEN Some(seq_end) ELSE None,
                       walk |-> st.walk_steps]),
                 st.errors)))

\* ------------------------------------------------------- Jump, Containment
\* Jump::parse_line
Jump_parse_line(g, parts, raw, n, map, options) ==
    Let(parse_generic_bridge(g,
            [bridge_type |-> "Jump", from_segment |-> parts[2],
             from_orientation |-> parts[3], to_segment |-> parts[4],
             to_orientation |-> parts[5], overlap |-> None],
            raw, n, map, options), LAMBDA b :
    Let(IF parts[6] = "*" THEN None ELSE ParseI32(parts[6]), LAMBDA distance :
    LET sc == TagGetInt(b.map, "SC")
        e1 == IF sc.some /\ sc.v # 0 /\ sc.v # 1
              THEN <<Msg(n, "InvalidShortcut", IntToStr(sc.v))>> ELSE <<>>
        e2 == IF parts[6] # "*" /\ ~distance.some
              THEN <<Msg(n, "InvalidJumpDistance", parts[6])>> ELSE <<>>
    IN  IF ~b.bridge.some THEN Ret(b.g, None, b.errs)
        ELSE Ret(b.g,
                 Some([kind |-> "Jump", line_no |-> n, raw |-> raw, tags |-> b.map,
                       from_segment |-> b.bridge.v.from_segment,
                       from_orientation |-> b.bridge.v.from_orientation,
                       to_segment |-> b.bridge.v.to_segment,
                       to_orientation |-> b.bridge.v.to_orientation,
                       distance |-> distance]),
                 b.errs \o e1 \o e2)))

\* Containment::parse_line
Containment_parse_line(g, parts, raw, n, map, options) ==
    Let(parse_generic_bridge(g,
            [bridge_type |-> "Containment", from_segment |-> parts[2],
             from_orientation |-> parts[3], to_segment |-> parts[4],
             to_orientation |-> parts[5], overlap |-> Some(parts[7])],
            raw, n, map, options), LAMBDA b :
    Let(ParseI32(parts[6]), LAMBDA parsed :
    LET position == IF parsed.some THEN parsed.v ELSE 0
        e1 == IF parsed.some THEN <<>> ELSE <<Msg(n, "InvalidPosition", parts[6])>>
        container_segment == find_segment_with_name(b.g, parts[2])
        e2 == IF /\ container_segment.some
                 /\ (position < 0 \/ position > get_length(SegAt(b.g, container_segment.v)))
              THEN <<Msg(n, "InvalidPosition", parts[6])>> ELSE <<>>
    IN  IF ~b.bridge.some THEN Ret(b.g, None, b.errs)
        ELSE Ret(b.g,
                 Some([kind |-> "Containment", line_no |-> n, raw |-> raw, tags |-> b.map,
                       container |-> b.bridge.v.from_segment,
                       container_orientation |-> b.bridge.v.from_orientation,
                       contained |-> b.bridge.v.to_segment,
                       contained_orientation |-> b.bridge.v.to_orientation,
                       position |-> position, overlap |-> parts[7]]),
                 b.errs \o e1 \o e2)))

\* ----------------------------------------- references, intervals (utils.rs)

\* utils::parse_directed_reference: Some(reference) or None for Err
parse_directed_reference(reference) ==
    IF reference = "" THEN None
    ELSE IF Ch(reference, Len(reference)) \notin {"+", "-"} THEN None
    ELSE IF ~is_valid_name(Prefix(reference, Len(reference) - 1)) THEN None
    ELSE Some([reference |-> Prefix(reference, Len(reference) - 1),
               direction |-> Ch(reference, Len(reference)) = "+"])

\* utils::parse_position: the position (or None) and the diagnostics pushed
parse_position(n, position) ==
    LET has_postfix == EndsWith(position, "$")
        pos_str == IF has_postfix THEN Prefix(position, Len(position) - 1) ELSE position
        bad == [pos |-> None, errs |-> <<Msg(n, "InvalidIntervalPosition", position)>>]
    IN  IF position = "" THEN bad
        ELSE Let(ParseI32(pos_str), LAMBDA p :
                 IF ~p.some THEN bad
                 ELSE [pos |-> Some([position |-> p.v, is_last |-> has_postfix]),
                       errs |-> <<>>])

\* a check that takes a bound equal to the length for one out of range
check_interval_inclusive(n, interval, segment) ==
    Let(get_length(segment), LAMBDA length :
    LET where == " where L = " \o IntToStr(length) \o " for segment " \o segment.name
        Sentinel(code, side, p) == Msg(n, code, "segment " \o side \o ": "
                                                    \o PositionToStr(p) \o where)
    IN  (IF interval.begin.position >= length \/ interval.end.position >= length
         THEN <<Msg(n, "InvalidIntervalPositionRange", IntervalToStr(interval) \o where)>>
         ELSE <<>>)
        \o (IF interval.begin.is_last /\ interval.begin.position # length
            THEN <<Sentinel("InvalidIntervalPositionSentinel", "begin", interval.begin)>>
            ELSE <<>>)
        \o (IF interval.end.is_last /\ interval.end.position # length
            THEN <<Sentinel("InvalidIntervalPositionSentinel", "end", interval.end)>>
            ELSE <<>>)
        \o (IF ~interval.begin.is_last /\ interval.begin.position = length
            THEN <<Sentinel("MissingIntervalPositionSentinel", "begin", interval.begin)>>
            ELSE <<>>)
        \o (IF ~interval.end.is_last /\ interval.end.position = length
            THEN <<Sentinel("MissingIntervalPositionSentinel", "end", interval.end)>>
            ELSE <<>>))

\* utils::check_interval: the diagnostics pushed
check_interval(n, interval, segment) ==
    Let(get_length(segment), LAMBDA length :
    LET where == " where L = " \o IntToStr(length) \o " for segment " \o segment.name
        Sentinel(code, side, p) == Msg(n, code, "segment " \o side \o ": "
                                                    \o PositionToStr(p) \o where)
    IN  (IF interval.begin.position > length \/ interval.end.position > length
         THEN <<Msg(n, "InvalidIntervalPositionRange", IntervalToStr(interval) \o where)>>
         ELSE <<>>)
        \o (IF interval.begin.is_last /\ interval.begin.position # length
            THEN <<Sentinel("InvalidIntervalPositionSentinel", "begin", interval.begin)>>
            ELSE <<>>)
        \o (IF interval.end.is_last /\ interval.end.position # length
            THEN <<Sentinel("InvalidIntervalPositionSentinel", "end", interval.end)>>
            ELSE <<>>)
        \o (IF ~interval.begin.is_last /\ interval.begin.position = length
            THEN <<Sentinel("MissingIntervalPositionSentinel", "begin", interval.begin)>>
            ELSE <<>>)
        \o (IF ~interval.end.is_last /\ interval.end.position = length
            THEN <<Sentinel("MissingIntervalPositionSentinel", "end", interval.end)>>
            ELSE <<>>))

\* utils::parse_interval: the interval (None for Err) and the diagnostics
\* pushed; segment is an Option of a Segment record
parse_interval(n, segment, begin, end) ==
    Let(parse_position(n, begin), LAMBDA b :
    Let(parse_position(n, end), LAMBDA e :
        IF b.errs \o e.errs # <<>> THEN [interval |-> None, errs |-> b.errs \o e.errs]
        ELSE Let([begin |-> b.pos.v, end |-> e.pos.v], LAMBDA interval :
                 [interval |-> Some(interval),
                  errs |-> IF segment.some THEN check_interval(n, interval, segment.v)
                           ELSE <<>>])))

\* utils::deduce_alignment: the alignment (an Option) and whether it is Err
deduce_alignment(alignment) ==
    IF alignment = "*" THEN [ok |-> TRUE, v |-> None]
    ELSE IF is_valid_cigar(alignment)
    THEN [ok |-> TRUE, v |-> Some([is |-> "CIGAR", text |-> alignment])]
    ELSE IF is_valid_trace(alignment)
    THEN [ok |-> TRUE, v |-> Some([is |-> "Trace", text |-> alignment])]
    ELSE [ok |-> FALSE, v |-> None]

\* --------------------------------------------------- Edge, Gap, Fragment
\* Edge::parse_line / Gap::parse_line, the identifier of the record: the
\* builder, the identifier (an Option), the diagnostics pushed and whether
\* the unwrap of the ID tag aborted
edge_id_of(g, col, n, map) ==
    LET tag == TagGetString(map, "ID")
        has_tag == MapHas(map, "ID")
        e1 == IF ~has_tag THEN <<>>
              ELSE IF col # "*" THEN <<Msg(n, "RedundantEdgeIDTag", tag.v)>>
              ELSE <<Msg(n, "EdgeIDTagUsedInAnonEdge", tag.v)>>
        id0 == IF has_tag /\ col = "*" THEN tag
               ELSE IF col = "*" THEN None ELSE Some(col)
    IN  IF has_tag /\ ~tag.some THEN [g |-> g, id |-> None, errs |-> <<>>, panic |-> TRUE]
        ELSE IF ~id0.some THEN [g |-> g, id |-> None, errs |-> e1, panic |-> FALSE]
        ELSE IF ~is_valid_name(id0.v)
        THEN [g |-> g, id |-> None, errs |-> Append(e1, Msg(n, "InvalidID", id0.v)),
              panic |-> FALSE]
        ELSE Let(ensure_name_unique(g, n, id0.v), LAMBDA u :
                 [g |-> u.g, id |-> Some(u.name), errs |-> e1, panic |-> FALSE])

\* the segment record a name resolves to, as an Option
SegmentNamed(g, name) ==
    Let(find_segment_with_name(g, name), LAMBDA s :
        IF s.some THEN Some(SegAt(g, s.v)) ELSE None)

\* Edge::parse_line
Edge_parse_line(g, parts, raw, n, map, options) ==
    Let(parse_directed_reference(parts[3]), LAMBDA from0 :
    Let(parse_directed_reference(parts[4]), LAMBDA to0 :
        IF ~from0.some THEN Ret(g, None, <<Msg(n, "InvalidDirectedReference", parts[3])>>)
        ELSE IF ~to0.some THEN Ret(g, None, <<Msg(n, "InvalidDirectedReference", parts[4])>>)
        ELSE
    Let(parse_generic_bridge(g,
            [bridge_type |-> "Edge", from_segment |-> from0.v.reference,
             from_orientation |-> Sign(from0.v.direction),
             to_segment |-> to0.v.reference,
             to_orientation |-> Sign(to0.v.direction), overlap |-> None],
            raw, n, map, options), LAMBDA b :
        IF ~b.bridge.some THEN Ret(b.g, None, b.errs)
        ELSE
    Let(edge_id_of(b.g, parts[2], n, b.map), LAMBDA id :
        IF id.panic THEN Abort(b.g)
        ELSE
    Let([reference |-> b.bridge.v.from_segment, direction |-> b.bridge.v.from_orientation],
        LAMBDA from :
    Let([reference |-> b.bridge.v.to_segment, direction |-> b.bridge.v.to_orientation],
        LAMBDA to :
    Let(parse_interval(n, SegmentNamed(id.g, from.reference), parts[5], parts[6]),
        LAMBDA from_interval :
    Let(parse_interval(n, SegmentNamed(id.g, to.reference), parts[7], parts[8]),
        LAMBDA to_interval :
    Let(b.errs \o id.errs \o from_interval.errs \o to_interval.errs, LAMBDA errors :
        IF ~from_interval.interval.some \/ ~to_interval.interval.some
        THEN Ret(id.g, None, errors)
        ELSE
    Let(deduce_alignment(parts[9]), LAMBDA alignment :
        Ret(id.g,
            Some([kind |-> "Edge", line_no |-> n, raw |-> raw, tags |-> b.map,
                  id |-> id.id, from |-> from, to |-> to,
                  from_interval |-> from_interval.interval.v,
                  to_interval |-> to_interval.interval.v,
                  alignment |-> alignment.v]),
            errors \o (IF alignment.ok THEN <<>>
                       ELSE <<Msg(n, "InvalidAlignment", parts[9])>>))))))))))))

\* Gap::parse_line
Gap_parse_line(g, parts, raw, n, map, options) ==
    Let(parse_directed_reference(parts[3]), LAMBDA from0 :
    Let(parse_directed_reference(parts[4]), LAMBDA to0 :
        IF ~from0.some THEN Ret(g, None, <<Msg(n, "InvalidDirectedReference", parts[3])>>)
        ELSE IF ~to0.some THEN Ret(g, None, <<Msg(n, "InvalidDirectedReference", parts[4])>>)
        ELSE
    Let(parse_generic_bridge(g,
            [bridge_type |-> "Gap", from_segment |-> from0.v.reference,
             from_orientation |-> Sign(from0.v.direction),
             to_segment |-> to0.v.reference,
             to_orientation |-> Sign(to0.v.direction), overlap |-> None],
            raw, n, map, options), LAMBDA b :
        IF ~b.bridge.some THEN Ret(b.g, None, b.errs)
        ELSE
    Let(edge_id_of(b.g, parts[2], n, b.map), LAMBDA id :
        IF id.panic THEN Abort(b.g)
        ELSE
    Let(ParseI32(parts[5]), LAMBDA distance :
    Let(IF parts[6] = "*" THEN None ELSE ParseI32(parts[6]), LAMBDA variance :
        Ret(id.g,
            Some([kind |-> "Gap", line_no |-> n, raw |-> raw, tags |-> b.map,
                  id |-> id.id,
                  from |-> [reference |-> b.bridge.v.from_segment,
                            direction |-> b.bridge.v.from_orientation],
                  to |-> [reference |-> b.bridge.v.to_segment,
                          direction |-> b.bridge.v.to_orientation],
                  distance |-> IF distance.some THEN distance.v ELSE 0,
                  variance |-> variance]),
            b.errs \o id.errs
                \o (IF distance.some THEN <<>>
                    ELSE <<Msg(n, "InvalidGapDistance", parts[5])>>)
                \o (IF parts[6] # "*" /\ ~variance.some
                    THEN <<Msg(n, "InvalidVariance", parts[6])>> ELSE <<>>))))))))

\* Fragment::parse_line
Fragment_parse_line(g, parts, raw, n, map, options) ==
    LET missing == ~find_segment_with_name(g, parts[2]).some
        policy == options.handle_missing_segment
        e1 == IF missing THEN <<Msg(n, "SegmentNotFound", parts[2])>> ELSE <<>>
    IN  IF missing /\ policy \in {"HardSkip", "SoftSkip"} THEN Ret(g, None, e1)
        ELSE
    Let(IF missing /\ policy = "CreateGhost"
        THEN create_ghost_segment(g, parts[2]).g ELSE g, LAMBDA g1 :
    Let(find_segment_with_name(g1, parts[2]), LAMBDA s :
    Let(IF s.some THEN PushAdjacent(g1, s.v, "fragments", n) ELSE g1, LAMBDA g2 :
    Let(parse_directed_reference(parts[3]), LAMBDA external0 :
    Let(parse_interval(n, SegmentNamed(g2, parts[2]), parts[4], parts[5]),
        LAMBDA segment_interval :
    Let(parse_interval(n, None, parts[6], parts[7]), LAMBDA fragment_interval :
    Let(e1 \o (IF external0.some THEN <<>>
               ELSE <<Msg(n, "InvalidDirectedReference", parts[3])>>)
           \o segment_interval.errs \o fragment_interval.errs, LAMBDA errors :
        IF ~segment_interval.interval.some \/ ~fragment_interval.interval.some
        THEN Ret(g2, None, errors)
        ELSE
    Let(deduce_alignment(parts[8]), LAMBDA alignment :
        Ret(g2,
            Some([kind |-> "Fragment", line_no |-> n, raw |-> raw, tags |-> map,
                  segment_name |-> parts[2],
                  external_name |-> IF external0.some THEN external0.v
                                    ELSE [reference |-> parts[2], direction |-> TRUE],
                  segment_interval |-> segment_interval.interval.v,
                  fragment_interval |-> fragment_interval.interval.v,
                  alignment |-> alignment.v]),
            errors \o (IF alignment.ok THEN <<>>
                       ELSE <<Msg(n, "InvalidAlignment", parts[8])>>))))))))))

\* ------------------------------------------------------------------ groups
RECURSIVE group_members(_, _, _, _, _, _)
\* group::parse_generic_group, the loop over the members: acc holds the
\* members kept, the diagnostics and whether the group was given up
group_members(g, n, members_str, i, options, acc) ==
    IF i > Len(members_str) \/ acc.dropped THEN acc
    ELSE LET member == members_str[i]
             member_name == TrimEndMatches(member, {"+", "-"})
             record_exists == is_name_in_namespace(g, member_name)
             e1 == IF record_exists THEN <<>> ELSE <<Msg(n, "GroupMemberNotFound", member)>>
         IN  IF ~record_exists /\ options.handle_missing_segment = "HardSkip"
             THEN [acc EXCEPT !.errors = @ \o e1 \o <<Msg(n, "InvalidGroup", member)>>,
                              !.dropped = TRUE]
             ELSE group_members(g, n, members_str, i + 1, options,
                                [acc EXCEPT !.errors = @ \o e1,
                                            !.members = Append(@, member)])

\* group::parse_generic_group: the builder, the group (or None) and the
\* diagnostics returned
parse_generic_group(g, parts, n, options) ==
    LET group_type_str == IF parts.group_type = "OrderedGroup" THEN "O" ELSE "U"
        new_name == "anon_" \o group_type_str \o "_" \o IntToStr(n)
    IN  Let(ensure_name_unique(g, n, IF parts.name # "*" THEN parts.name ELSE new_name),
            LAMBDA u :
        Let(group_members(u.g, n, SplitOn(parts.members, {" "}), 1, options,
                          [members |-> <<>>, errors |-> <<>>, dropped |-> FALSE]),
            LAMBDA acc :
            [g |-> u.g,
             group |-> IF acc.dropped THEN None
                       ELSE Some([name |-> u.name, members |-> acc.members]),
             errs |-> acc.errors]))

\* OrderedGroup::parse_line and UnorderedGroup::parse_line
Group_parse_line(kind, g, parts, raw, n, map, options) ==
    Let(parse_generic_group(g, [group_type |-> kind, name |-> parts[2],
                                members |-> parts[3]], n, options), LAMBDA gr :
        IF ~gr.group.some THEN Ret(gr.g, None, gr.errs)
        ELSE Ret(gr.g,
                 Some([kind |-> kind, line_no |-> n, raw |-> raw, tags |-> map,
                       name |-> gr.group.v.name, members |-> gr.group.v.members]),
                 gr.errs))
OrderedGroup_parse_line(g, parts, raw, n, map, options) ==
    Group_parse_line("OrderedGroup", g, parts, raw, n, map, options)
UnorderedGroup_parse_line(g, parts, raw, n, map, options) ==
    Group_parse_line("UnorderedGroup", g, parts, raw, n, map, options)

\* ------------------------------------------------------ record.rs dispatch
REQ_COLUMNS_HEADER == 1
REQ_COLUMNS_LINK == 6
REQ_COLUMNS_CONTAIN == 7
REQ_COLUMNS_PATH == 4
REQ_COLUMNS_WALK == 7
REQ_COLUMNS_JUMP == 6
REQ_COLUMNS_FRAGMENT == 8
REQ_COLUMNS_EDGE == 9
REQ_COLUMNS_GAP == 6
REQ_COLUMNS_ORDERED == 3
REQ_COLUMNS_UNORDERED == 3
RecordTypes == {"H", "S", "L", "C", "P", "W", "J", "F", "E", "G", "O", "U"}

\* GfaRecord::parse_line, the table of required columns
required_columns(g, record_type) ==
    CASE record_type = "H" -> REQ_COLUMNS_HEADER
      [] record_type = "S" -> (IF g.version = "V2" THEN 4 ELSE 3)
      [] record_type = "L" -> REQ_COLUMNS_LINK
      [] record_type = "C" -> REQ_COLUMNS_CONTAIN
      [] record_type = "P" -> REQ_COLUMNS_PATH
      [] record_type = "W" -> REQ_COLUMNS_WALK
      [] record_type = "J" -> REQ_COLUMNS_JUMP
      [] record_type = "F" -> REQ_COLUMNS_FRAGMENT
      [] record_type = "E" -> REQ_COLUMNS_EDGE
      [] record_type = "G" -> REQ_COLUMNS_GAP
      [] record_type = "O" -> REQ_COLUMNS_ORDERED
      [] record_type = "U" -> REQ_COLUMNS_UNORDERED

\* GfaRecord::parse_line, the match over the record type
dispatch(record_type, g, parts, raw, n, map, options) ==
    CASE record_type = "H" -> Header_parse_line(g, parts, raw, n, map, options)
      [] record_type = "S" -> Segment_parse_line(g, parts, raw, n, map, options)
      [] record_type = "L" -> Link_parse_line(g, parts, raw, n, map, options)
      [] record_type = "C" -> Containment_parse_line(g, parts, raw, n, map, options)
      [] record_type = "P" -> Path_parse_line(g, parts, raw, n, map, options)
      [] record_type = "W" -> Walk_parse_line(g, parts, raw, n, map, options)
      [] record_type = "J" -> Jump_parse_line(g, parts, raw, n, map, options)
      [] record_type = "F" -> Fragment_parse_line(g, parts, raw, n, map, options)
      [] record_type = "E" -> Edge_parse_line(g, parts, raw, n, map, options)
      [] record_type = "G" -> Gap_parse_line(g, parts, raw, n, map, options)
      [] record_type = "O" -> OrderedGroup_parse_line(g, parts, raw, n, map, options)
      [] record_type = "U" -> UnorderedGroup_parse_line(g, parts, raw, n, map, options)

\* GfaRecord::parse_line: the builder after the call, the record (or None),
\* the diagnostics returned, and whether the call aborted
parse_line(g, line, n, options) ==
    LET parts == SplitOn(line, {"\t"})
        record_type == parts[1]
        raw == IF options.store_raw_lines THEN line ELSE ""
    IN  IF record_type \notin RecordTypes THEN Abort(g)
        ELSE
        Let(required_columns(g, record_type), LAMBDA required :
        IF Len(parts) < required THEN Ret(g, None, <<Msg(n, "InvalidLine", raw)>>)
        ELSE
        Let(collect_optional_fields(n, record_type,
                                    SubSeq(parts, required + 1, Len(parts))),
            LAMBDA collected :
        Let(dispatch(record_type,
                     [g EXCEPT !.tag_names =
                          @ \cup {collected.fields[i].tag : i \in 1..Len(collected.fields)}],
                     parts, raw, n, TagMapFromVec(collected.fields), options), LAMBDA r :
            IF r.panic THEN r
            ELSE Ret(r.g, r.rec,
                     r.errs \o (IF collected.errors = <<>> THEN <<>>
                                ELSE <<collected.errors[1]>>)))))

\* ------------------------------------------------------------ serialisers
\* field type letter of a stored tag value (get_field_type().get_char())
FieldTypeChar(v) == v.ty

\* whether tag text s sorts before tag text t, byte by byte
TagBefore(s, t) ==
    \E i \in 1..Len(s) :
        /\ \A j \in 1..(i - 1) : j <= Len(t) /\ Ch(s, j) = Ch(t, j)
        /\ i <= Len(t) /\ ByteOf(Ch(s, i)) < ByteOf(Ch(t, i))

RECURSIVE TagOrder(_, _)
\* One order in which the tag map hands out its keys. A HashMap fixes no
\* order; the model draws two of them, ascending and descending.
TagOrder(keys, reverse) ==
    IF keys = {} THEN <<>>
    ELSE Let(CHOOSE k \in keys :
                 \A o \in keys \ {k} :
                     IF reverse THEN TagBefore(o, k) ELSE TagBefore(k, o), LAMBDA head :
             <<head>> \o TagOrder(keys \ {head}, reverse))

\* utils::build_gfa_line
build_gfa_line(record_type, columns, tags, reverse) ==
    Let(TagOrder(DOMAIN tags, reverse), LAMBDA order :
        Join(<<record_type>> \o columns
                 \o [i \in 1..Len(order) |->
                        order[i] \o ":" \o FieldTypeChar(tags[order[i]]) \o ":"
                            \o ValueToString(tags[order[i]])], "\t"))

\* impl Display for Alignment, under Option::map_or("*")
AlignmentToStr(a) == IF a.some THEN a.v.text ELSE "*"
OptIntToStr(o) == IF o.some THEN IntToStr(o.v) ELSE "*"
OptToStr(o) == IF o.some THEN o.v ELSE "*"
\* the name written for a Path step and for a Walk step
PathStepName(g, s) ==
    Let(find_segment(g, s.segment_id), LAMBDA seg : IF seg.some THEN seg.v.name ELSE "")
WalkStepName(g, s) ==
    Let(find_segment(g, s.segment_id), LAMBDA seg :
        IF seg.some THEN seg.v.name ELSE IntToStr(s.segment_id))

\* Edge::to_raw_line_v1
Edge_to_raw_line_v1(r, reverse) ==
    LET t1 == IF r.id.some /\ ~MapHas(r.tags, "ID")
              THEN MapPut(r.tags, "ID", TagVal("Z", r.id.v)) ELSE r.tags
        is_trace == r.alignment.some /\ r.alignment.v.is = "Trace"
        t2 == IF is_trace THEN MapPut(t1, "TS", TagVal("Z", r.alignment.v.text)) ELSE t1
        overlap == IF r.alignment.some /\ ~is_trace THEN r.alignment.v.text ELSE "*"
    IN  build_gfa_line("L", <<r.from.reference, Sign(r.from.direction), r.to.reference,
                              Sign(r.to.direction), overlap>>, add_flag(t2, "edge"), reverse)

\* Gap::to_raw_line_v1
Gap_to_raw_line_v1(r, is_v1_0, reverse) ==
    LET t1 == IF r.id.some /\ ~MapHas(r.tags, "ID")
              THEN MapPut(r.tags, "ID", TagVal("Z", r.id.v)) ELSE r.tags
        t2 == IF r.variance.some /\ ~MapHas(t1, "VA")
              THEN MapPut(t1, "VA", TagVal("i", r.variance.v)) ELSE t1
        t3 == add_flag(t2, "gap")
        t4 == IF is_v1_0 /\ ~MapHas(t3, "VA")
              THEN MapPut(t3, "DI", TagVal("i", r.distance)) ELSE t3
    IN  build_gfa_line(IF is_v1_0 THEN "L" ELSE "J",
                       <<r.from.reference, Sign(r.from.direction), r.to.reference,
                         Sign(r.to.direction),
                         IF is_v1_0 THEN "*" ELSE IntToStr(r.distance)>>, t4, reverse)

\* the record type, the columns and the tags each record kind hands to
\* build_gfa_line (to_raw_line_v1 / to_raw_line_v2 of each record type)
raw_columns(r, version, g) ==
    CASE r.kind = "Header" ->
            [type |-> "H", columns |-> <<>>,
             tags |-> MapPut(r.tags, "VN", TagVal("Z", VersionToString(version)))]
      [] r.kind = "Segment" ->
            [type |-> "S",
             columns |-> IF version = "V2"
                         THEN <<r.name, IntToStr(get_length(r)), r.sequence>>
                         ELSE <<r.name, r.sequence>>,
             tags |-> r.tags]
      [] r.kind = "Link" ->
            [type |-> "L",
             columns |-> <<r.from_segment, Sign(r.from_orientation), r.to_segment,
                           Sign(r.to_orientation), r.overlap>>,
             tags |-> r.tags]
      [] r.kind = "Jump" ->
            [type |-> "J",
             columns |-> <<r.from_segment, Sign(r.from_orientation), r.to_segment,
                           Sign(r.to_orientation), OptIntToStr(r.distance)>>,
             tags |-> r.tags]
      [] r.kind = "Containment" ->
            [type |-> "C",
             columns |-> <<r.container, Sign(r.container_orientation), r.contained,
                           Sign(r.contained_orientation), IntToStr(r.position), r.overlap>>,
             tags |-> r.tags]
      [] r.kind = "Path" ->
            [type |-> "P",
             columns |-> <<r.name,
                           Join([i \in 1..Len(r.steps) |->
                                    PathStepName(g, r.steps[i])
                                        \o Sign(r.steps[i].orientation)], ","),
                           Join(r.overlaps, ",")>>,
             tags |-> r.tags]
      [] r.kind = "Walk" ->
            [type |-> "W",
             columns |-> <<r.sample_id, IntToStr(r.hap_index), r.seq_id,
                           OptIntToStr(r.seq_start), OptIntToStr(r.seq_end),
                           Join([i \in 1..Len(r.walk) |->
                                    (IF r.walk[i].orientation THEN ">" ELSE "<")
                                        \o WalkStepName(g, r.walk[i])], "")>>,
             tags |-> r.tags]
      [] r.kind = "Fragment" ->
            [type |-> "F",
             columns |-> <<r.segment_name, ReferenceToStr(r.external_name),
                           PositionToStr(r.segment_interval.begin),
                           PositionToStr(r.segment_interval.end),
                           PositionToStr(r.fragment_interval.begin),
                           PositionToStr(r.fragment_interval.end),
                           AlignmentToStr(r.alignment)>>,
             tags |-> r.tags]
      [] r.kind = "Edge" ->
            [type |-> "E",
             columns |-> <<OptToStr(r.id), ReferenceToStr(r.from), ReferenceToStr(r.to),
                           PositionToStr(r.from_interval.begin),
                           PositionToStr(r.from_interval.end),
                           PositionToStr(r.to_interval.begin),
                           PositionToStr(r.to_interval.end),
                           AlignmentToStr(r.alignment)>>,
             tags |-> r.tags]
      [] r.kind = "Gap" ->
            [type |-> "G",
             columns |-> <<OptToStr(r.id), ReferenceToStr(r.from), ReferenceToStr(r.to),
                           IntToStr(r.distance), OptIntToStr(r.variance)>>,
             tags |-> r.tags]
      [] r.kind \in {"OrderedGroup", "UnorderedGroup"} ->
            [type |-> "U", columns |-> <<r.name, Join(r.members, " ")>>, tags |-> r.tags]

\* GfaRecord::to_raw_line: the line a record is written as ("" = no line)
to_raw_line(r, version, g, reverse) ==
    IF r.kind = "Edge" /\ version # "V2" THEN Edge_to_raw_line_v1(r, reverse)
    ELSE IF r.kind = "Gap" /\ version # "V2"
    THEN Gap_to_raw_line_v1(r, version # "V1_2", reverse)
    ELSE IF r.kind \in {"Fragment", "OrderedGroup", "UnorderedGroup"} /\ version # "V2"
    THEN ""
    ELSE Let(raw_columns(r, version, g), LAMBDA w :
             build_gfa_line(w.type, w.columns, w.tags, reverse))

\* GfaParser::write_to_file, the pass a record is written in
record_pass(r) ==
    CASE r.kind = "Header" -> 0
      [] r.kind = "Segment" -> 1
      [] r.kind \in {"Link", "Jump", "Containment", "Fragment", "Edge", "Gap"} -> 2
      [] r.kind \in {"Path", "Walk", "OrderedGroup", "UnorderedGroup"} -> 3

\* a writer that emits the records in storage order, in one pass
write_to_file_storage_order(g, version, reverse) ==
    LET lines == [i \in 1..Len(g.records) |-> to_raw_line(g.records[i], version, g, reverse)]
    IN  SelectSeq(lines, LAMBDA l : l # "")

\* GfaParser::write_to_file: the lines of the file written
write_to_file(g, version, reverse) ==
    LET InPass(p) == SelectSeq(g.records, LAMBDA r : record_pass(r) = p)
        ordered == InPass(0) \o InPass(1) \o InPass(2) \o InPass(3)
        lines == [i \in 1..Len(ordered) |-> to_raw_line(ordered[i], version, g, reverse)]
    IN  SelectSeq(lines, LAMBDA l : l # "")

\* GfaParser::header: the first Header record, as an Option
header(g) ==
    LET hs == SelectSeq(g.records, LAMBDA r : r.kind = "Header")
    IN  IF hs = <<>> THEN None ELSE Some(hs[1])

\* GfaParser::find_isolated_segments
find_isolated_segments(g) ==
    SelectSeq(g.records, LAMBDA r : /\ r.kind = "Segment"
                                    /\ get_outgoing_bridges(r) = <<>>
                                    /\ get_incoming_bridges(r) = <<>>)
\* a search that takes only the lack of an outgoing bridge for a dead end
find_dead_ends_outgoing_only(g) ==
    SelectSeq(g.records, LAMBDA r : r.kind = "Segment" /\ get_outgoing_bridges(r) = <<>>)
\* GfaParser::find_dead_ends, the segments returned
find_dead_ends(g) ==
    SelectSeq(g.records, LAMBDA r : /\ r.kind = "Segment"
                                    /\ \/ get_outgoing_bridges(r) = <<>>
                                       \/ get_incoming_bridges(r) = <<>>)
\* GfaParser::find_dead_ends, the count returned: one for each Segment
\* without an outgoing bridge and one for each without an incoming bridge
find_dead_ends_count(g) ==
    Len(SelectSeq(g.records, LAMBDA r : r.kind = "Segment" /\ get_outgoing_bridges(r) = <<>>))
        + Len(SelectSeq(g.records, LAMBDA r : r.kind = "Segment" /\ get_incoming_bridges(r) = <<>>))
\* GfaParser::add_info_errors
add_info_errors(g) ==
    LET iso == find_isolated_segments(g)
        dead == find_dead_ends(g)
    IN  ExtendMsgs(g, [i \in 1..Len(iso) |-> Msg(iso[i].line_no, "IsolatedSegment", iso[i].name)]
                      \o [i \in 1..Len(dead) |->
                             Msg(dead[i].line_no, "DeadEndTip", dead[i].name)])

\* ------------------------------------------------------------- the loader
\* A physical line of a file: readable text, or a line the reader fails on
Readable(text) == [ok |-> TRUE, text |-> text]
Unreadable == [ok |-> FALSE, text |-> ""]

RECURSIVE read_lines(_, _, _)
\* GfaParser::parse, the loop over file.lines(): the pairs (line number,
\* text) kept and the diagnostics pushed for the lines that cannot be read
read_lines(physical, line_no, acc) ==
    IF line_no > Len(physical) THEN acc
    ELSE read_lines(physical, line_no + 1,
                    IF physical[line_no].ok
                    THEN [acc EXCEPT !.raw_lines =
                              Append(@, [idx |-> line_no, line |-> physical[line_no].text])]
                    ELSE [acc EXCEPT !.messages =
                              Append(@, Msg(line_no, "IOError", "(unable to read line)"))])

\* GfaParser::parse up to the passes: the builder and the lines read
begin_parse(g, physical) ==
    LET rd == read_lines(physical, 1, [raw_lines |-> <<>>, messages |-> <<>>])
    IN  [g |-> [ExtendMsgs(g, rd.messages) EXCEPT !.max_lines = Len(rd.raw_lines),
                                                  !.namespace_index = EmptyMap],
         raw_lines |-> rd.raw_lines]

\* a pass loop that hands every record line to the parser in every pass
Admitted_in_every_pass(p, line) ==
    line # "" /\ Ch(line, 1) # "#"

\* GfaParser::parse, whether a pass parses a line
Admitted(p, line) ==
    /\ line # "" /\ Ch(line, 1) # "#"
    /\ CASE p = 0 -> Ch(line, 1) = "H"
         [] p = 1 -> Ch(line, 1) = "S"
         [] p = 2 -> Ch(line, 1) \in {"L", "J", "C", "F", "E", "G"}
         [] p = 3 -> Ch(line, 1) \in {"P", "W", "O", "U"}

\* the turns of the two nested loops that come after turn (p, i), and the
\* first of them that parses a line
Later(raw, p, i) ==
    {t \in (0..3) \X (1..Len(raw)) :
        /\ t[1] > p \/ (t[1] = p /\ t[2] > i)
        /\ Admitted(t[1], raw[t[2]].line)}
FirstOf(turns) ==
    CHOOSE t \in turns : \A u \in turns : t[1] < u[1] \/ (t[1] = u[1] /\ t[2] <= u[2])

\* a loop body that stores the record and forgets the diagnostics returned
parse_turn_forgetful(g, line, idx, opts) ==
    Let(parse_line(g, line, idx, opts), LAMBDA r :
        [g |-> push_record_and_update_index(r.g, r.rec),
         panic |-> r.panic, errs |-> r.errs])

\* GfaParser::parse, the body of the inner loop for a line a pass admits:
\* the builder, whether the call aborted, and the diagnostics returned
parse_turn(g, line, idx, opts) ==
    Let(parse_line(g, line, idx, opts), LAMBDA r :
        [g |-> ExtendMsgs(push_record_and_update_index(r.g, r.rec), r.errs),
         panic |-> r.panic, errs |-> r.errs])

\* GfaParser::parse after the passes: the builder and the result returned
end_parse(g, path) ==
    Let(header(g), LAMBDA h :
    Let(add_info_errors(IF ~h.some THEN PushMsg(g, Msg(0, "MissingHeader", path))
                        ELSE IF h.v.line_no # 1
                        THEN PushMsg(g, Msg(h.v.line_no, "HeaderNotOnFirstLine", h.v.raw))
                        ELSE g), LAMBDA g2 :
        [g |-> g2,
         result |-> IF HasFatal(g2.messages)
                    THEN [ok |-> FALSE, v |-> SelectMsgs(g2.messages, "Fatal")]
                    ELSE [ok |-> TRUE, v |-> <<>>]]))

RECURSIVE parse_passes(_, _, _, _)
\* GfaParser::parse, the passes from the turn after t on: the builder, and
\* whether a call aborted
parse_passes(g, raw, t, opts) ==
    IF Later(raw, t[1], t[2]) = {} THEN [g |-> g, panic |-> FALSE]
    ELSE Let(FirstOf(Later(raw, t[1], t[2])), LAMBDA u :
         Let(parse_turn(g, raw[u[2]].line, raw[u[2]].idx, opts), LAMBDA r :
             IF r.panic THEN [g |-> g, panic |-> TRUE]
             ELSE parse_passes(r.g, raw, u, opts)))

\* GfaParser::parse of a readable file, from the call to its return: the
\* builder, and whether the call aborted
parse(g, physical, opts) ==
    Let(begin_parse(g, physical), LAMBDA b :
    Let(parse_passes(b.g, b.raw_lines, <<0, 0>>, opts), LAMBDA r :
        IF r.panic THEN r ELSE [g |-> end_parse(r.g, "file").g, panic |-> FALSE]))

\* GfaParser::parse on a directory, and on a file that cannot be opened
fail_parse(g, code, path) ==
    LET g1 == PushMsg(g, Msg(0, code, path))
    IN  [g |-> g1, result |-> [ok |-> FALSE, v |-> g1.messages]]

\* GfaParser::add_line: the builder, the result and whether the call aborted
add_line(g, line, opts) ==
    LET g0 == get_available_line_no(g)
        line_no == g0.max_lines
    IN  Let(parse_line(g0, line, line_no, opts), LAMBDA r :
            IF r.panic
            THEN [g |-> r.g, result |-> [ok |-> FALSE, v |-> <<>>], panic |-> TRUE]
            ELSE IF ~r.rec.some
            THEN [g |-> r.g, result |-> [ok |-> FALSE, v |-> r.errs], panic |-> FALSE]
            ELSE [g |-> push_record_and_update_index(ExtendMsgs(r.g, r.errs), r.rec),
                  result |-> [ok |-> TRUE, v |-> line_no], panic |-> FALSE])

\* GfaParser::add_record: the draft is written as a line (in the builder's
\* version, V2 when it is still unknown) and the line is handed to add_line
add_record(g, draft, opts, reverse) ==
    LET version == IF g.version = "Unknown" THEN "V2" ELSE g.version
    IN  add_line(g, to_raw_line(draft, version, g, reverse), opts)

\* ============================================================ state machine
\* One builder and one caller. The caller holds an input file and the parse
\* options for the whole run, and calls parse (on the input file, on the
\* file last written, on a directory, on a path that cannot be opened),
\* add_line, write_to_file and GfaParser::new. parse advances one parsed
\* line at a time.
VARIABLES
    gfa,            \* the GfaParser
    parse_options,  \* the ParseOptions the caller passes to every call
    file,           \* the physical lines of the caller's input file
    disk,           \* the lines of the file last written by write_to_file
    pc,             \* "idle", "loading" (inside parse) or "aborted" (panic)
    raw_lines,      \* parse: the lines read
    turn,           \* parse: the (pass, position) of the last line parsed
    path,           \* parse: which file is being loaded, "file" or "disk"
    result,         \* what the last call returned
    calls,          \* the calls made on this builder since it was built
    ops,            \* the number of calls made in the run
    mark,           \* history: the builder's message count when parse began
    emitted,        \* history: the diagnostics produced by the current parse
    log,            \* history: the (pass, line number) of each line parsed
    first,          \* history: the outcome of the load of the input file
    disk_of,        \* history: the calls before disk was written, and the version
    draft           \* history: the record handed to the last add_record

vars == <<gfa, parse_options, file, disk, pc, raw_lines, turn, path, result, calls, ops,
          mark, emitted, log, first, disk_of, draft>>

\* the policies the caller may hold
IgnoreOptions ==
    [DefaultOptions EXCEPT !.handle_missing_segment = "Ignore",
                           !.handle_missing_bridge = "Ignore"]
OptionSet == {DefaultOptions, IgnoreOptions}

\* the lines an input file is made of
FileLines ==
    {Unreadable,
     Readable("H\tVN:Z:1.0"),
     Readable("S\ta\t*"),
     Readable("S\ta_1\t*"),
     Readable("L\ta\t+\tb\t+\t0M"),
     Readable("P\ta\ta_1+\t*"),
     Readable("W\ts\t0\tq\t*\t*\t>a>b")}
Files == UNION {[1..n -> FileLines] : n \in 0..MaxFileLen}

\* the texts the caller hands to add_line
AddLineTexts == {"", "#c", "X\ty", "S", "S\tb\t*", "L\ta\t+\tb\t+\t0M"}

\* the records the caller hands to add_record
Drafts ==
    {[SegmentDefault EXCEPT !.name = "s1", !.sequence = "ACGT", !.length = Some(4)],
     [SegmentDefault EXCEPT !.name = "b"],
     [LinkDefault EXCEPT !.from_segment = "a", !.to_segment = "b", !.overlap = "0M"]}

NoResult == [call |-> "none", ok |-> TRUE, v |-> <<>>]
NoFirst == [set |-> FALSE, ok |-> FALSE, records |-> 0, diagnostics |-> 0]
NoDisk == [set |-> FALSE, calls |-> <<>>, version |-> "Unknown"]

Init ==
    /\ gfa = NewParser
    /\ parse_options \in OptionSet
    /\ file \in Files
    /\ disk = <<>>
    /\ pc = "idle"
    /\ raw_lines = <<>>
    /\ turn = <<0, 0>>
    /\ path = "file"
    /\ result = NoResult
    /\ calls = <<>>
    /\ ops = 0
    /\ mark = 0
    /\ emitted = <<>>
    /\ log = <<>>
    /\ first = NoFirst
    /\ disk_of = NoDisk
    /\ draft = SegmentDefault

CanCall == pc = "idle" /\ ops < MaxOps

\* the physical lines behind a path
Physical(p) == IF p = "file" THEN file ELSE [i \in 1..Len(disk) |-> Readable(disk[i])]

\* parse(path, options) on a readable file, up to the first pass
LoadFile(p) ==
    /\ CanCall
    /\ p = "disk" => disk_of.set
    /\ \E b \in {begin_parse(gfa, Physical(p))} :
           /\ gfa' = b.g
           /\ raw_lines' = b.raw_lines
           /\ emitted' = SubSeq(b.g.messages, Len(gfa.messages) + 1, Len(b.g.messages))
    /\ mark' = Len(gfa.messages)
    /\ pc' = "loading"
    /\ turn' = <<0, 0>>
    /\ path' = p
    /\ log' = <<>>
    /\ calls' = Append(calls, "parse:" \o p)
    /\ ops' = ops + 1
    /\ UNCHANGED <<draft, parse_options, file, disk, result, first, disk_of>>

\* parse, one turn of the loops: the next line a pass admits is parsed
ParseNextLine ==
    /\ pc = "loading"
    /\ Later(raw_lines, turn[1], turn[2]) # {}
    /\ \E t \in {FirstOf(Later(raw_lines, turn[1], turn[2]))} :
       \E r \in {parse_turn(gfa, raw_lines[t[2]].line, raw_lines[t[2]].idx,
                            parse_options)} :
           /\ turn' = t
           /\ log' = Append(log, [pass |-> t[1], idx |-> raw_lines[t[2]].idx])
           /\ IF r.panic
              THEN /\ pc' = "aborted"
                   /\ result' = [call |-> "parse", ok |-> FALSE, v |-> <<>>]
                   /\ UNCHANGED <<gfa, emitted>>
              ELSE /\ gfa' = r.g
                   /\ emitted' = emitted
                         \o SubSeq(r.g.messages, Len(gfa.messages) + 1,
                                   Len(r.g.messages) - Len(r.errs))
                         \o r.errs
                   /\ UNCHANGED <<pc, result>>
    /\ UNCHANGED <<draft, parse_options, file, disk, raw_lines, path, calls, ops, mark, first,
                   disk_of>>

\* parse, after the passes: header check, info diagnostics, the result
FinishLoad ==
    /\ pc = "loading"
    /\ Later(raw_lines, turn[1], turn[2]) = {}
    /\ \E e \in {end_parse(gfa, path)} :
           /\ gfa' = e.g
           /\ result' = [call |-> "parse", ok |-> e.result.ok, v |-> e.result.v]
           /\ emitted' = emitted \o SubSeq(e.g.messages, Len(gfa.messages) + 1,
                                           Len(e.g.messages))
           /\ first' = IF calls = <<"parse:file">>
                       THEN [set |-> TRUE, ok |-> e.result.ok,
                             records |-> Len(e.g.records),
                             diagnostics |-> Len(e.g.messages)]
                       ELSE first
    /\ pc' = "idle"
    /\ UNCHANGED <<draft, parse_options, file, disk, raw_lines, turn, path, calls, ops, mark, log,
                   disk_of>>

\* parse(path, options) on a directory or on a path that cannot be opened
LoadFails(code) ==
    /\ CanCall
    /\ LET f == fail_parse(gfa, code, "dir")
       IN  /\ gfa' = f.g
           /\ result' = [call |-> "parse", ok |-> FALSE, v |-> f.result.v]
    /\ mark' = Len(gfa.messages)
    /\ emitted' = <<Msg(0, code, "dir")>>
    /\ calls' = Append(calls, "parse:" \o code)
    /\ ops' = ops + 1
    /\ UNCHANGED <<draft, parse_options, file, disk, pc, raw_lines, turn, path, log, first, disk_of>>
LoadDirectory == LoadFails("DirectoryError")
LoadOpenError == LoadFails("IOError")

\* add_line(line, options)
AddLine(line) ==
    /\ CanCall
    /\ \E a \in {add_line(gfa, line, parse_options)} :
           /\ gfa' = a.g
           /\ result' = [call |-> "add_line", ok |-> a.result.ok, v |-> a.result.v]
           /\ pc' = IF a.panic THEN "aborted" ELSE "idle"
    /\ calls' = Append(calls, "add_line")
    /\ ops' = ops + 1
    /\ UNCHANGED <<draft, parse_options, file, disk, raw_lines, turn, path, mark, emitted, log,
                   first, disk_of>>

\* write_to_file(path, version); reverse is the order the tag maps iterate in
WriteToFile(version, reverse) ==
    /\ CanCall
    /\ disk' = write_to_file(gfa, version, reverse)
    /\ disk_of' = [set |-> TRUE, calls |-> calls, version |-> version]
    /\ result' = [call |-> "write_to_file", ok |-> TRUE, v |-> <<>>]
    /\ calls' = Append(calls, "write_to_file")
    /\ ops' = ops + 1
    /\ UNCHANGED <<draft, gfa, parse_options, file, pc, raw_lines, turn, path, mark, emitted, log,
                   first>>

\* add_record(draft, options); reverse is the order the tag maps iterate in
AddRecord(d, reverse) ==
    /\ CanCall
    /\ \E a \in {add_record(gfa, d, parse_options, reverse)} :
           /\ gfa' = a.g
           /\ result' = [call |-> "add_record", ok |-> a.result.ok, v |-> a.result.v]
           /\ pc' = IF a.panic THEN "aborted" ELSE "idle"
    /\ draft' = d
    /\ calls' = Append(calls, "add_record")
    /\ ops' = ops + 1
    /\ UNCHANGED <<parse_options, file, disk, raw_lines, turn, path, mark, emitted, log,
                   first, disk_of>>

\* GfaParser::new: the caller replaces the builder by a fresh one
New ==
    /\ pc = "idle"
    /\ calls # <<>>
    /\ gfa' = NewParser
    /\ calls' = <<>>
    /\ result' = NoResult
    /\ raw_lines' = <<>>
    /\ turn' = <<0, 0>>
    /\ mark' = 0
    /\ emitted' = <<>>
    /\ log' = <<>>
    /\ UNCHANGED <<draft, parse_options, file, disk, pc, path, ops, first, disk_of>>

Next ==
    \/ \E p \in {"file", "disk"} : LoadFile(p)
    \/ ParseNextLine
    \/ FinishLoad
    \/ LoadDirectory
    \/ LoadOpenError
    \/ \E line \in AddLineTexts : AddLine(line)
    \/ \E d \in Drafts, reverse \in BOOLEAN : AddRecord(d, reverse)
    \/ \E version \in {"V1", "V1_2", "V2"}, reverse \in BOOLEAN : WriteToFile(version, reverse)
    \/ New

Spec == Init /\ [][Next]_vars

\* ------------------------------------------------- further input families
\* Families of input files, one per group of record kinds, each loaded once
\* into a fresh builder.
\* the most lines a file of a family has
MaxLines == 3
\* the files of at most MaxLines lines drawn from a set of lines
FilesOf(lines) == UNION {[1..n -> lines] : n \in 0..MaxLines}
\* parse(path, options) of the caller's file, from the call to its return
Load == LoadFile("file") \/ ParseNextLine \/ FinishLoad

\* the state after construction, for a caller that holds one of the given
\* files and one of the given options
InitWith(files, options) ==
    /\ gfa = NewParser
    /\ parse_options \in options
    /\ file \in files
    /\ disk = <<>>
    /\ pc = "idle"
    /\ raw_lines = <<>>
    /\ turn = <<0, 0>>
    /\ path = "file"
    /\ result = NoResult
    /\ calls = <<>>
    /\ ops = 0
    /\ mark = 0
    /\ emitted = <<>>
    /\ log = <<>>
    /\ first = NoFirst
    /\ disk_of = NoDisk
    /\ draft = SegmentDefault

\* bridge lines of the five kinds between a and b, a Link from c to c, and
\* the Segment lines that declare a and b; every missing-segment policy
BridgeLines ==
    {Readable("S\ta\t*"),
     Readable("S\tb\t*"),
     Readable("L\ta\t+\tb\t+\t0M"),
     Readable("L\tc\t+\tc\t-\t*"),
     Readable("J\ta\t+\tb\t-\t*"),
     Readable("C\ta\t+\tb\t+\t0\t0M"),
     Readable("E\t*\ta+\tb+\t0$\t0$\t0$\t0$\t*"),
     Readable("G\t*\ta+\tb-\t0\t*")}
SegmentPolicies ==
    {[DefaultOptions EXCEPT !.handle_missing_segment = p] : p \in MissingSegmentOptions}
InitBridges == InitWith(FilesOf(BridgeLines), SegmentPolicies)
SpecBridges == InitBridges /\ [][Load]_vars

\* two Segments, a Link between them, the Link an implicit one stands on,
\* and a Path that steps from one to the other; implicit links on and off
PathLines ==
    {Readable("S\ta\t*"),
     Readable("S\tb\t*"),
     Readable("L\ta\t+\tb\t+\t0M"),
     Readable("L\ta\t-\tb\t-\t0M"),
     Readable("P\tp\ta+,b+\t*")}
ImplicitOptions == {[DefaultOptions EXCEPT !.allow_implicit_links = b] : b \in BOOLEAN}
SpecPaths == InitWith(FilesOf(PathLines), ImplicitOptions) /\ [][Load]_vars

\* Walks of one step over one (sample, haplotype, sequence) triple with ranges
\* that overlap, touch and nest, and a Walk of another haplotype
WalkRangeLines ==
    {Readable("W\ts\t0\tq\t0\t50\t>a"),
     Readable("W\ts\t0\tq\t50\t100\t>a"),
     Readable("W\ts\t0\tq\t0\t100\t>a"),
     Readable("W\ts\t0\tq\t50\t150\t>a"),
     Readable("W\ts\t1\tq\t0\t50\t>a")}
SpecWalkRanges == InitWith(FilesOf(WalkRangeLines), {DefaultOptions}) /\ [][Load]_vars

\* Headers of the narrow and of the wide dialect, Segment lines laid out for
\* each of them, with and without an LN tag and a sequence; sequences
\* retained or not
SegmentLines ==
    {Readable("H\tVN:Z:1.0"),
     Readable("H\tVN:Z:2.0"),
     Readable("S\ts1\t10\t*\tLN:i:20"),
     Readable("S\ts2\t4\tACGT"),
     Readable("S\ta\tACGT"),
     Readable("S\tb\t*\tLN:i:7"),
     Readable("S\tc\t*")}
SequenceOptions == {[DefaultOptions EXCEPT !.store_sequences = b] : b \in BOOLEAN}
SpecSegments == InitWith(FilesOf(SegmentLines), SequenceOptions) /\ [][Load]_vars

\* a Header, a Segment s1 and a Link from s1 to an undeclared s2, in the
\* order of the file and in every other arrangement of up to MaxLines lines
GhostLinkFile ==
    <<Readable("H\tVN:Z:1.0"), Readable("S\ts1\tACGT"), Readable("L\ts1\t+\ts2\t+\t0M")>>
SpecGhostLink ==
    InitWith(FilesOf({GhostLinkFile[i] : i \in 1..Len(GhostLinkFile)}), {DefaultOptions})
        /\ [][Load]_vars

\* a Link, an Edge, a Gap and a Jump from a+ to b+, and a Walk that steps
\* from a to b; every missing-bridge policy
WalkStepLines ==
    {Readable("L\ta\t+\tb\t+\t0M"),
     Readable("E\t*\ta+\tb+\t0$\t0$\t0$\t0$\t*"),
     Readable("G\t*\ta+\tb+\t0\t*"),
     Readable("J\ta\t+\tb\t+\t*"),
     Readable("W\ts\t0\tq\t*\t*\t>a>b")}
BridgePolicies ==
    {[DefaultOptions EXCEPT !.handle_missing_bridge = p] : p \in MissingBridgeOptions}
SpecWalkSteps == InitWith(FilesOf(WalkStepLines), BridgePolicies) /\ [][Load]_vars

\* Segment and Link lines that carry an LN or an MQ tag, of the reserved type
\* or not, on a record kind that allows it or not, alone or next to a column
\* that is no well-formed optional field
TagLines ==
    {Readable("S\ta\t*\tLN:i:4"),
     Readable("S\tb\t*\tLN:Z:4"),
     Readable("S\tb\t*\tLN:Z:4\tx:i:1"),
     Readable("S\tb\t*\tx:i:1\tLN:Z:4"),
     Readable("L\ta\t+\ta\t+\t0M\tLN:i:4"),
     Readable("L\ta\t+\ta\t+\t0M\tx:i:1\tLN:i:4"),
     Readable("S\tc\t*\tMQ:i:1")}
SpecTags == InitWith(FilesOf(TagLines), {DefaultOptions}) /\ [][Load]_vars

\* Segment and Link lines that carry one tag once, twice with two values, or
\* twice with the same value
DuplicateTagLines ==
    {Readable("S\ta\t*\tab:i:1\tab:i:2"),
     Readable("S\tb\t*\tab:i:1\tab:i:1"),
     Readable("S\tc\t*\tab:i:1"),
     Readable("S\td\t*\tLN:i:3\tLN:i:5"),
     Readable("L\ta\t+\tb\t+\t0M\tab:Z:x\tab:Z:y")}
SpecDuplicateTags == InitWith(FilesOf(DuplicateTagLines), {DefaultOptions}) /\ [][Load]_vars

\* Paths with no overlap column, with one overlap for two steps, with two
\* overlaps for two steps, and with an unknown overlap between segments no
\* Link joins; segments declared or not, under every missing-segment policy
PathOverlapLines ==
    {Readable("S\ta\t*"),
     Readable("P\tp\ta+,b+\t*"),
     Readable("P\tq\ta+,b+\t0M"),
     Readable("P\tr\ta+,b+\t0M,1M"),
     Readable("P\ts\ta+,b+,c+\t0M,*")}
SpecPathOverlaps == InitWith(FilesOf(PathOverlapLines), SegmentPolicies) /\ [][Load]_vars

\* Links and Containments whose overlap is a CIGAR string, the unknown `*`,
\* or neither
CigarLines ==
    {Readable("L\ta\t+\tb\t+\t4M"),
     Readable("L\ta\t+\tb\t+\t*"),
     Readable("L\ta\t+\tb\t-\t4Q"),
     Readable("C\ta\t+\tb\t+\t0\t4M"),
     Readable("C\ta\t+\tb\t-\t0\tM4")}
SpecCigars == InitWith(FilesOf(CigarLines), {DefaultOptions}) /\ [][Load]_vars

\* Gaps with and without a variance and with and without an id
GapLines ==
    {Readable("S\ta\t*"),
     Readable("G\t*\ta+\tb+\t5\t*"),
     Readable("G\t*\ta+\tb-\t5\t2"),
     Readable("G\tg\ta+\tb+\t7\t*"),
     Readable("G\tg\ta-\tb+\t7\t3")}
SpecGaps == InitWith(FilesOf(GapLines), {DefaultOptions}) /\ [][Load]_vars

\* a record of every pass, listed out of pass order, with a Fragment and the
\* two group kinds that the narrow dialects cannot render; the file is loaded
\* and then written once, in any dialect
WriteOrderLines ==
    {Readable("P\tp\ta+,c+\t*"),
     Readable("L\ta\t+\tb\t+\t0M"),
     Readable("S\ta\t*"),
     Readable("H\tVN:Z:1.0"),
     Readable("F\ta\tx+\t0\t1\t0\t1\t*"),
     Readable("O\to\ta+"),
     Readable("U\tu\ta")}
LoadThenWrite ==
    \/ Load
    \/ \E version \in {"V1", "V1_2", "V2"}, reverse \in BOOLEAN :
           calls = <<"parse:file">> /\ WriteToFile(version, reverse)
SpecWriteOrder == InitWith(FilesOf(WriteOrderLines), {DefaultOptions}) /\ [][LoadThenWrite]_vars

\* a declared Segment, and Paths and a Walk that step on it and on a segment
\* x that no line declares, under every missing-segment policy
MissingStepLines ==
    {Readable("S\ta\t*"),
     Readable("P\tp\ta+,x+\t*"),
     Readable("P\tq\tx+,a+\t*"),
     Readable("W\ts\t0\tq\t*\t*\t>a>x")}
SpecMissingSteps == InitWith(FilesOf(MissingStepLines), SegmentPolicies) /\ [][Load]_vars

\* Headers of both dialects and Segments with a sequence, without one, with
\* a length tag that agrees, disagrees or is no integer, and with a length
\* column that is or is not a number; sequences retained or not
RetainLines ==
    {Readable("H\tVN:Z:2.0"),
     Readable("S\ta\tACGT"),
     Readable("S\tb\tACGT\tLN:i:7"),
     Readable("S\tc\t*"),
     Readable("S\td\tACGT\tLN:Z:x"),
     Readable("S\te\t6\tACGT"),
     Readable("S\tf\tx\tACG")}
SpecRetain == InitWith(FilesOf(RetainLines), SequenceOptions) /\ [][Load]_vars

\* lines of every pass, listed out of pass order, with an empty line, a
\* comment, and a Segment and a Link line that are too short to give a record
PassLines ==
    {Readable(""),
     Readable("#c"),
     Readable("P\tp\ta+\t*"),
     Readable("L\ta\t+\tb\t+\t0M"),
     Readable("L\ta"),
     Readable("S\ta\t*"),
     Readable("S"),
     Readable("H\tVN:Z:1.0")}
SpecPasses == InitWith(FilesOf(PassLines), {DefaultOptions}) /\ [][Load]_vars

\* Links with a known overlap and Paths over them whose overlap column
\* leaves one or both overlaps unknown, or gives both; overlap substitution
\* on or off
SubstituteLines ==
    {Readable("L\ta\t+\tb\t+\t0M"),
     Readable("L\tb\t+\tc\t+\t4M"),
     Readable("P\tp\ta+,b+,c+\t0M,*"),
     Readable("P\tq\ta+,b+,c+\t*,*"),
     Readable("P\tr\ta+,b+,c+\t0M,1M")}
SubstituteOptions == {[DefaultOptions EXCEPT !.substitute_path_overlaps = b] : b \in BOOLEAN}
SpecSubstitute == InitWith(FilesOf(SubstituteLines), SubstituteOptions) /\ [][Load]_vars

\* a Segment, Links with the overlap `0M` and with another one, a Link that
\* ends reversed, a Jump, a Gap and an Edge between the same two segments;
\* the file is loaded and the caller then asks is_step_valid once
StepLines ==
    {Readable("S\ta\t*"),
     Readable("L\ta\t+\tb\t+\t0M"),
     Readable("L\ta\t+\tb\t+\t4M"),
     Readable("L\ta\t+\tb\t-\t00M"),
     Readable("J\ta\t+\tb\t+\t*"),
     Readable("G\t*\ta+\tb+\t5\t*"),
     Readable("E\t*\ta+\tb+\t0\t1\t0\t1\t*")}
\* the arguments the caller hands to is_step_valid
StepArgs ==
    [from_segment_name : {"a", "b"}, to_segment_name : {"b"},
     from_orientation : BOOLEAN, to_orientation : BOOLEAN,
     allow_links : BOOLEAN, allow_jumps : BOOLEAN, allow_edges : BOOLEAN,
     allow_gaps : BOOLEAN, report_overlaps : BOOLEAN]
\* is_step_valid(0, ...), called on the builder the load has left
IsStepValid(a) ==
    /\ CanCall
    /\ \E r \in {is_step_valid(gfa, 0, a.from_segment_name, a.to_segment_name,
                               a.from_orientation, a.to_orientation, a.allow_links,
                               a.allow_jumps, a.allow_edges, a.allow_gaps,
                               a.report_overlaps)} :
           /\ gfa' = r.g
           /\ result' = [call |-> "is_step_valid", ok |-> r.valid, v |-> <<a>>]
    /\ mark' = Len(gfa.messages)
    /\ calls' = Append(calls, "is_step_valid")
    /\ ops' = ops + 1
    /\ UNCHANGED <<draft, parse_options, file, disk, pc, raw_lines, turn, path, emitted, log,
                   first, disk_of>>
LoadThenStep ==
    \/ calls = <<>> /\ LoadFile("file")
    \/ ParseNextLine
    \/ FinishLoad
    \/ \E a \in StepArgs : calls = <<"parse:file">> /\ IsStepValid(a)
SpecSteps == InitWith(FilesOf(StepLines), {DefaultOptions}) /\ [][LoadThenStep]_vars

\* a Segment of length 4, Edges from it whose from-interval is within the
\* length, beyond it, ends at it with or without `$`, or is no number, and
\* Fragments on it with a fragment-relative interval beyond any length
IntervalLines ==
    {Readable("S\ta\tACGT"),
     Readable("E\t*\ta+\tb+\t0\t4$\t0\t0$\t*"),
     Readable("E\t*\ta+\tb+\t5\t4\t0\t0$\t*"),
     Readable("E\t*\ta+\tb+\t2\t3$\t0\t0$\t*"),
     Readable("E\t*\ta+\tb+\tx\t4$\t0\t0$\t*"),
     Readable("F\ta\tx+\t0\t4$\t9\t9$\t*"),
     Readable("F\ta\tx+\t5\t4\t0\t0\t*")}
SpecIntervals == InitWith(FilesOf(IntervalLines), {DefaultOptions}) /\ [][Load]_vars

\* two Segments and one bridge of each kind between them, a Containment the
\* other way, and an Edge whose interval is no number
DeadEndLines ==
    {Readable("S\ta\t*"),
     Readable("S\tb\t*"),
     Readable("L\ta\t+\tb\t+\t0M"),
     Readable("J\ta\t+\tb\t-\t*"),
     Readable("C\tb\t+\ta\t+\t0\t0M"),
     Readable("E\t*\ta+\tb+\t0\t0$\t0\t0$\t*"),
     Readable("G\t*\ta+\tb+\t5\t*"),
     Readable("E\t*\ta+\tb+\tx\t0$\t0\t0$\t*")}
SpecDeadEnds == InitWith(FilesOf(DeadEndLines), {DefaultOptions}) /\ [][Load]_vars

\* a Segment, a Link, and an Edge and a Fragment with a bound that is no
\* number, loaded from a file or handed to add_line one by one, in any order
BackRefLines ==
    {Readable("S\ta\tACGT"),
     Readable("L\ta\t+\tb\t+\t0M"),
     Readable("E\t*\ta+\tb+\tx\t4$\t0\t0$\t*"),
     Readable("F\ta\tx+\t0\tx\t0\t0$\t*")}
BackRefTexts ==
    {"S\ta\tACGT",
     "E\t*\ta+\tb+\t0\t4$\t0\t0$\t*",
     "E\t*\ta+\tb+\tx\t4$\t0\t0$\t*",
     "F\ta\tx+\t0\t4$\t0\t0$\t*",
     "F\ta\tx+\t0\tx\t0\t0$\t*"}
LoadOrAdd == Load \/ \E line \in BackRefTexts : AddLine(line)
SpecBackRefs == InitWith(FilesOf(BackRefLines), {DefaultOptions}) /\ [][LoadOrAdd]_vars

\* a Header, a Segment, a Path with a step on a segment that no line
\* declares, and lines whose first column is longer than one character
AbortLines ==
    {Readable("H\tVN:Z:1.0"),
     Readable("S\ta\t*"),
     Readable("P\tp\ta+,x+\t*"),
     Readable("Hello\tworld"),
     Readable("SS\ta\t*")}
SpecAborts == InitWith(FilesOf(AbortLines), SegmentPolicies) /\ [][Load]_vars

\* bridges of each kind from a segment c to itself, and the Segment line
\* that declares c
SelfBridgeLines ==
    {Readable("S\tc\t*"),
     Readable("L\tc\t+\tc\t-\t*"),
     Readable("J\tc\t+\tc\t+\t*"),
     Readable("C\tc\t+\tc\t+\t0\t*"),
     Readable("E\t*\tc+\tc+\t0\t0$\t0\t0$\t*"),
     Readable("G\t*\tc+\tc-\t5\t*")}
SpecSelfBridges == InitWith(FilesOf(SelfBridgeLines), {DefaultOptions}) /\ [][Load]_vars

\* Headers with each version text the Header parser knows and one it does
\* not, and a Segment line in the narrow and one in the wide layout
VersionLines ==
    {Readable("H\tVN:Z:1"),
     Readable("H\tVN:Z:1.0"),
     Readable("H\tVN:Z:1.1"),
     Readable("H\tVN:Z:1.2"),
     Readable("H\tVN:Z:2"),
     Readable("H\tVN:Z:2.0"),
     Readable("H\tVN:Z:3"),
     Readable("S\ta\tACGT"),
     Readable("S\tb\t2\tAC")}
SpecVersions == InitWith(FilesOf(VersionLines), {DefaultOptions}) /\ [][Load]_vars

\* a wide-dialect Header, a Segment, and an OrderedGroup and an
\* UnorderedGroup on it; the builder is written in the wide dialect and the
\* output is loaded into a fresh builder
GroupLines ==
    {Readable("H\tVN:Z:2.0"),
     Readable("S\ta\t0\t*"),
     Readable("O\to\ta+"),
     Readable("U\tu\ta")}
LoadWriteReload ==
    \/ calls = <<>> /\ ~disk_of.set /\ LoadFile("file")
    \/ ParseNextLine
    \/ FinishLoad
    \/ \E reverse \in BOOLEAN : calls = <<"parse:file">> /\ WriteToFile("V2", reverse)
    \/ result.call = "write_to_file" /\ New
    \/ calls = <<>> /\ LoadFile("disk")
SpecGroups == InitWith(FilesOf(GroupLines), {DefaultOptions}) /\ [][LoadWriteReload]_vars

\* ================================================================ properties
\* the builder has finished one load of the input file and nothing else
AfterLoad == pc = "idle" /\ calls = <<"parse:file">>
\* a Segment record that no Segment line of the file declared
Synthesized(r) ==
    /\ r.kind = "Segment"
    /\ ~\E k \in 1..Len(log) : log[k] = [pass |-> 1, idx |-> r.line_no]
\* the from-segment name of a stored bridge
BridgeFrom(b) == IF b.kind \in {"Edge", "Gap"} THEN b.from.reference ELSE b.from_segment

\* C1: after a load, the stored Segment, Path, OrderedGroup and UnorderedGroup
\* records have pairwise distinct names
C1_DistinctNames ==
    AfterLoad =>
        \A i, j \in 1..Len(gfa.records) :
            (/\ i < j
             /\ gfa.records[i].kind \in NamedKinds
             /\ gfa.records[j].kind \in NamedKinds)
                => gfa.records[i].name # gfa.records[j].name

\* C2: after a load, every stored bridge whose from-segment exists is in that
\* segment's outgoing list of its kind, and every stored bridge whose
\* to-segment exists is in that segment's incoming list of its kind
C2_AdjacencyRegistered ==
    AfterLoad =>
        \A i \in 1..Len(gfa.records) :
            gfa.records[i].kind \in BridgeKinds =>
                LET b == gfa.records[i]
                    from == find_segment_with_name(gfa, BridgeFrom(b))
                    to == find_segment_with_name(gfa, BridgeTo(b))
                    Has(list) == \E k \in 1..Len(list) : list[k] = b.line_no
                IN  /\ from.some => Has(SegAt(gfa, from.v)[OutField(b.kind)])
                    /\ to.some => Has(SegAt(gfa, to.v)[InField(b.kind)])

\* the columns of line i of the input file
Cols(i) == SplitOn(file[i].text, {"\t"})
\* line i of the input file is a readable line of a record type with n columns
IsLine(i, type, n) == file[i].ok /\ Len(Cols(i)) >= n /\ Cols(i)[1] = type
\* the segment names the Segment lines of the input file declare
DeclaredSegments == {Cols(i)[2] : i \in {k \in 1..Len(file) : IsLine(k, "S", 3)}}
\* the input file has a Link line from x+ to y+
LinkDeclared(x, y) ==
    \E i \in 1..Len(file) :
        /\ IsLine(i, "L", 6)
        /\ Cols(i)[2] = x /\ Cols(i)[3] = "+" /\ Cols(i)[4] = y /\ Cols(i)[5] = "+"
\* the segment names of the steps of the Walk line i, all of them forward
ForwardSteps(i) == Tail(SplitOn(Cols(i)[7], {">"}))

\* C3: lines are parsed in pass order (Segments, then bridges, then trails);
\* so after a load no bridge line has a SegmentNotFound for a segment a
\* Segment line of the file declares, and no Walk line whose step pairs are
\* all connected by Link lines of the file has a LinkNotFound
C3_ForwardReferences ==
    /\ \A i, j \in 1..Len(log) : i < j => log[i].pass <= log[j].pass
    /\ AfterLoad =>
        /\ \A k \in 1..Len(emitted) : \A i \in 1..Len(file) :
               (/\ emitted[k].code = "SegmentNotFound"
                /\ emitted[k].line = i
                /\ file[i].ok
                /\ Cols(i)[1] \in {"L", "J", "C", "E", "G"})
                   => emitted[k].offender \notin DeclaredSegments
        /\ \A i \in 1..Len(file) :
               (/\ IsLine(i, "W", 7)
                /\ ~Contains(Cols(i)[7], "<")
                /\ \A n \in 1..(Len(ForwardSteps(i)) - 1) :
                       LinkDeclared(ForwardSteps(i)[n], ForwardSteps(i)[n + 1]))
                   => ~\E k \in 1..Len(emitted) :
                          emitted[k].code = "LinkNotFound" /\ emitted[k].line = i

\* C4: when a load returns, it returns success exactly if the builder holds no
\* Fatal diagnostic, and every diagnostic produced during the load is in the
\* builder's message list, after the messages the builder held before
C4_LoadOutcome ==
    (pc = "idle" /\ result.call = "parse") =>
        /\ result.ok <=> ~HasFatal(gfa.messages)
        /\ mark + Len(emitted) = Len(gfa.messages)
        /\ SubSeq(gfa.messages, mark + 1, Len(gfa.messages)) = emitted
\* a load that parsed a line, failed, and produced non-fatal diagnostics too
C4_Witness ==
    /\ pc = "idle" /\ result.call = "parse" /\ ~result.ok
    /\ log # <<>>
    /\ \E k \in 1..Len(emitted) : emitted[k].code = "SegmentNotFound"
    /\ \E k \in 1..Len(emitted) : emitted[k].code = "MissingHeader"

\* C5: when a load fails, every message of the failure result is Fatal
C5_FailureIsFatalOnly ==
    (pc = "idle" /\ result.call = "parse" /\ ~result.ok) =>
        \A k \in 1..Len(result.v) : severity(result.v[k]) = "Fatal"

\* the builder has loaded the input file and has only been added to since
LoadedThenInserted ==
    /\ pc = "idle"
    /\ calls # <<>>
    /\ calls[1] = "parse:file"
    /\ \A k \in 2..Len(calls) : calls[k] \in {"add_line", "write_to_file"}

\* C6: after a load followed by insertions, the stored records have pairwise
\* distinct line numbers and the lookup by line number gives each record back
C6_DistinctLineNumbers ==
    LoadedThenInserted =>
        /\ \A i, j \in 1..Len(gfa.records) :
               i < j => gfa.records[i].line_no # gfa.records[j].line_no
        /\ \A i \in 1..Len(gfa.records) :
               find_record(gfa, gfa.records[i].line_no) = Some(gfa.records[i])

\* C7: under the Ignore policies, a successful load of the input file, a write
\* of the builder in a GFA 1 format and a load of the written file by a fresh
\* builder: the second load succeeds with as many records and as many
\* diagnostics as the first
C7_RoundTrip ==
    (/\ pc = "idle"
     /\ parse_options = IgnoreOptions
     /\ calls = <<"parse:disk">>
     /\ result.call = "parse"
     /\ disk_of.set /\ disk_of.calls = <<"parse:file">> /\ disk_of.version # "V2"
     /\ first.set /\ first.ok) =>
        /\ result.ok
        /\ Len(gfa.records) = first.records
        /\ Len(gfa.messages) = first.diagnostics

\* C8: after a load, every synthesized Segment has length 0, carries the ghost
\* flag and has a name no other named record has
C8_GhostSegments ==
    AfterLoad =>
        \A i \in 1..Len(gfa.records) :
            Synthesized(gfa.records[i]) =>
                /\ get_length(gfa.records[i]) = 0
                /\ has_flag(gfa.records[i].tags, "ghost")
                /\ \A j \in 1..Len(gfa.records) :
                       (j # i /\ gfa.records[j].kind \in NamedKinds)
                           => gfa.records[j].name # gfa.records[i].name

\* a Segment record that carries the ghost flag
IsGhost(r) == r.kind = "Segment" /\ has_flag(r.tags, "ghost")
\* the position of the record whose parse synthesized the ghost at position i:
\* the first record after it that is a record of a line
TriggerOf(i) ==
    CHOOSE j \in (i + 1)..Len(gfa.records) :
        /\ ~has_flag(gfa.records[j].tags, "ghost")
        /\ \A k \in (i + 1)..(j - 1) : has_flag(gfa.records[k].tags, "ghost")
\* the line numbers a Segment holds in its adjacency lists
Adjacent(seg) == get_outgoing_bridges(seg) \o get_incoming_bridges(seg) \o seg.fragments
\* the trail records with a step whose segment_id is n
SteppingOn(n) ==
    {j \in 1..Len(gfa.records) :
        \/ /\ gfa.records[j].kind = "Path"
           /\ \E k \in 1..Len(gfa.records[j].steps) : gfa.records[j].steps[k].segment_id = n
        \/ /\ gfa.records[j].kind = "Walk"
           /\ \E k \in 1..Len(gfa.records[j].walk) : gfa.records[j].walk[k].segment_id = n}

C10_AddLineTotal ==
    result.call = "add_line" =>
        /\ pc # "aborted"
        /\ result.ok => \E i \in 1..Len(gfa.records) : gfa.records[i].line_no = result.v

\* the record stored under line number n, as a set of at most one record
StoredAt(n) == {gfa.records[i] : i \in {j \in 1..Len(gfa.records) : gfa.records[j].line_no = n}}
\* the kind and the payload of a stored record are those of a draft
SamePayload(r, d) ==
    /\ r.kind = d.kind
    /\ d.kind = "Segment" => r.name = d.name /\ r.sequence = d.sequence
    /\ d.kind = "Link" =>
           /\ r.from_segment = d.from_segment /\ r.from_orientation = d.from_orientation
           /\ r.to_segment = d.to_segment /\ r.to_orientation = d.to_orientation
           /\ r.overlap = d.overlap

\* C11: when add_record returns a line number, the record stored under that
\* line number has the kind and the payload of the draft, on any builder
C11_AddRecordClones ==
    (pc = "idle" /\ result.call = "add_record" /\ result.ok) =>
        \E r \in StoredAt(result.v) : SamePayload(r, draft)

\* the two endpoint names of a stored bridge
FromName(b) ==
    IF b.kind \in {"Edge", "Gap"} THEN b.from.reference
    ELSE IF b.kind = "Containment" THEN b.container ELSE b.from_segment
ToName(b) ==
    IF b.kind \in {"Edge", "Gap"} THEN b.to.reference
    ELSE IF b.kind = "Containment" THEN b.contained ELSE b.to_segment
\* the two endpoint tokens of a bridge line
BridgeEnds(line) ==
    LET c == SplitOn(line, {"\t"})
    IN  IF c[1] \in {"L", "J", "C"} THEN <<c[2], c[4]>>
        ELSE <<Prefix(c[3], Len(c[3]) - 1), Prefix(c[4], Len(c[4]) - 1)>>
\* the builder holds a Segment record of that name
Declared(g, name) ==
    \E i \in 1..Len(g.records) : g.records[i].kind = "Segment" /\ g.records[i].name = name
\* a step of the passes that parses a bridge line, every Segment the builder
\* holds under an endpoint name being one its name index resolves
ParsesBridge ==
    /\ pc = "loading" /\ pc' = "loading" /\ turn' # turn
    /\ Ch(raw_lines[turn'[2]].line, 1) \in {"L", "J", "C", "E", "G"}
    /\ \A k \in 1..2 :
           Declared(gfa, BridgeEnds(raw_lines[turn'[2]].line)[k])
               <=> find_segment_with_name(gfa, BridgeEnds(raw_lines[turn'[2]].line)[k]).some
\* what the step that parses the bridge line does when an endpoint is missing
MissingEndpointHandled ==
    LET ln == raw_lines[turn'[2]]
        ends == BridgeEnds(ln.line)
        nofrom == ~Declared(gfa, ends[1])
        noto == ~Declared(gfa, ends[2])
        missing == (IF nofrom THEN 1 ELSE 0) + (IF noto THEN 1 ELSE 0)
        added == SubSeq(gfa'.records, Len(gfa.records) + 1, Len(gfa'.records))
        ghosts == SelectSeq(added, LAMBDA r : r.kind = "Segment")
        bridges == SelectSeq(added, LAMBDA r : r.kind \in BridgeKinds)
        said == SubSeq(emitted', Len(emitted) + 1, Len(emitted'))
        Count(code) == Len(SelectSeq(said, LAMBDA m : m.code = code /\ m.line = ln.idx))
        policy == parse_options.handle_missing_segment
    IN  missing > 0 =>
            /\ Count("SegmentNotFound") = missing
            /\ Count("BridgeGoesNowhere") = (IF missing = 2 THEN 1 ELSE 0)
            /\ policy \in {"HardSkip", "SoftSkip"} => gfa'.records = gfa.records
            /\ policy = "CreateGhost" =>
                   /\ Len(ghosts) = missing
                   /\ \A i \in 1..Len(ghosts) : has_flag(ghosts[i].tags, "ghost")
                   /\ Len(bridges) = 1 /\ bridges[1].line_no = ln.idx
                   /\ IF nofrom THEN \E i \in 1..Len(ghosts) : ghosts[i].name = FromName(bridges[1])
                      ELSE FromName(bridges[1]) = ends[1]
                   /\ IF noto THEN \E i \in 1..Len(ghosts) : ghosts[i].name = ToName(bridges[1])
                      ELSE ToName(bridges[1]) = ends[2]
            /\ policy = "Ignore" =>
                   /\ ghosts = <<>>
                   /\ Len(bridges) = 1 /\ bridges[1].line_no = ln.idx
                   /\ FromName(bridges[1]) = ends[1] /\ ToName(bridges[1]) = ends[2]
                   /\ Len(gfa'.records) = Len(gfa.records) + 1

LinkLine(x, ox, y, oy) ==
    \E i \in 1..Len(file) :
        /\ IsLine(i, "L", 6)
        /\ Cols(i)[2] = x /\ Cols(i)[3] = ox /\ Cols(i)[4] = y /\ Cols(i)[5] = oy
\* the steps of the Path line i, and the name and the orientation of a step
PathSteps(i) == SplitOn(Cols(i)[3], {",", ";"})
StepName(s) == Prefix(s, Len(s) - 1)
StepSign(s) == Ch(s, Len(s))
\* step pair k of the Path line i has no Link line with its endpoints and
\* orientations
Unlinked(i, k) ==
    ~LinkLine(StepName(PathSteps(i)[k]), StepSign(PathSteps(i)[k]),
              StepName(PathSteps(i)[k + 1]), StepSign(PathSteps(i)[k + 1]))

\* C13: with implicit links disallowed, a Path line with a step pair that no
\* Link line connects gets a LinkNotFound for the pair, and the Path is stored
\* with all of its steps
C13_UnlinkedPathStep ==
    (AfterLoad /\ ~parse_options.allow_implicit_links) =>
        \A i \in 1..Len(file) : \A k \in 1..2 :
            (IsLine(i, "P", 4) /\ k < Len(PathSteps(i)) /\ Unlinked(i, k)) =>
                /\ \E m \in 1..Len(emitted) :
                       /\ emitted[m].code = "LinkNotFound" /\ emitted[m].line = i
                       /\ emitted[m].offender =
                              "path step: " \o PathSteps(i)[k] \o " -> " \o PathSteps(i)[k + 1]
                /\ \E r \in StoredAt(i) :
                       r.kind = "Path" /\ Len(r.steps) = Len(PathSteps(i))

\* the Walk lines i and j of the input file have the same sample, haplotype
\* index and sequence id
SameTriple(i, j) ==
    /\ IsLine(i, "W", 7) /\ IsLine(j, "W", 7)
    /\ Cols(i)[2] = Cols(j)[2] /\ Cols(i)[3] = Cols(j)[3] /\ Cols(i)[4] = Cols(j)[4]
\* the half-open ranges of the Walk lines i and j intersect
RangesIntersect(i, j) ==
    /\ NatVal(Cols(i)[5]) < NatVal(Cols(j)[6])
    /\ NatVal(Cols(j)[5]) < NatVal(Cols(i)[6])
\* the load reported on line j an overlap with the Walk of line i
OverlapReported(j, i) ==
    \E m \in 1..Len(emitted) :
        /\ emitted[m].code = "OverlappingWalkRange" /\ emitted[m].line = j
        /\ emitted[m].offender =
               Cols(j)[2] \o "/" \o Cols(j)[3] \o "/" \o Cols(j)[4] \o " with range "
                   \o Cols(j)[5] \o ".." \o Cols(j)[6] \o " overlaps with "
                   \o Cols(i)[5] \o ".." \o Cols(i)[6] \o " on line " \o NatToStr(i)

\* C14: of two Walks of one triple, the later one gets OverlappingWalkRange
\* for the earlier one exactly when their half-open ranges intersect; ranges
\* that touch at a boundary get none
C14_WalkRangeOverlap ==
    AfterLoad =>
        \A i, j \in 1..Len(file) :
            (i < j /\ SameTriple(i, j)) => (OverlapReported(j, i) <=> RangesIntersect(i, j))

\* the load read its Segment lines under the wide dialect
Wide == gfa.version = "V2"
\* the sequence column and the optional fields of the Segment line i, as the
\* dialect of the load lays the line out
SegSequence(i) == IF Wide THEN Cols(i)[4] ELSE Cols(i)[3]
SegFields(i) == SubSeq(Cols(i), IF Wide THEN 5 ELSE 4, Len(Cols(i)))
\* an integer LN tag, and the one the Segment line i carries
IsLNField(f) == Len(f) > 5 /\ Prefix(f, 5) = "LN:i:" /\ AllDigits(From(f, 6))
HasLN(i) == \E k \in 1..Len(SegFields(i)) : IsLNField(SegFields(i)[k])
LNValue(i) ==
    NatVal(From(SegFields(i)[CHOOSE k \in 1..Len(SegFields(i)) : IsLNField(SegFields(i)[k])], 6))
\* line i is a Segment line with the columns of the dialect, its length
\* column an integer under the wide dialect
ReadAsSegment(i) ==
    /\ IsLine(i, "S", IF Wide THEN 4 ELSE 3)
    /\ Wide => AllDigits(Cols(i)[3])
\* the length the priority gives the Segment of line i
ResolvedLength(i) ==
    IF Wide THEN NatVal(Cols(i)[3])
    ELSE IF HasLN(i) THEN LNValue(i)
    ELSE IF SegSequence(i) # "*" THEN Len(SegSequence(i))
    ELSE 0
\* line i is a wide Segment line whose LN tag differs from its length column
TagMismatch(i) == Wide /\ ReadAsSegment(i) /\ HasLN(i) /\ LNValue(i) # NatVal(Cols(i)[3])

EmittedWith(code) == SelectSeq(emitted, LAMBDA m : m.code = code)
EmittedInfo == SelectSeq(emitted, LAMBDA m : severity(m) = "Info")
\* the stored Segments of a given name
SegmentsNamed(name) ==
    {gfa.records[i] : i \in {j \in 1..Len(gfa.records) :
        gfa.records[j].kind = "Segment" /\ gfa.records[j].name = name}}
\* the load of the three-line file has returned
GhostLinkLoaded == AfterLoad /\ file = GhostLinkFile /\ parse_options = DefaultOptions
\* what the load of the three-line file leaves, the Info diagnostics apart
GhostLinkOutcome ==
    /\ result.ok
    /\ \E g \in SegmentsNamed("s2") : IsGhost(g) /\ get_length(g) = 0
    /\ Len(EmittedWith("SegmentNotFound")) = 1
    /\ EmittedWith("IsolatedSegment") = <<>>
    /\ \A s \in SegmentsNamed("s1") : get_outgoing_bridges(s) # <<>>
    /\ SegmentsNamed("s1") # {}

\* C16 as stated: the three-line file loads, a ghost s2 of length 0 is
\* stored, one SegmentNotFound and exactly one Info diagnostic are produced,
\* no Segment is reported isolated and s1 has an outgoing bridge
C16_OneInfo ==
    GhostLinkLoaded => (GhostLinkOutcome /\ Len(EmittedInfo) = 1)
\* C16, amended: the same, with exactly two Info diagnostics, a DeadEndTip for
\* s1 (no incoming bridge) and a DeadEndTip for the ghost s2 (no outgoing one)
C16_TwoDeadEnds ==
    GhostLinkLoaded =>
        /\ GhostLinkOutcome
        /\ Len(EmittedInfo) = 2
        /\ \A k \in 1..2 : EmittedInfo[k].code = "DeadEndTip"
        /\ {EmittedInfo[k].offender : k \in 1..2} = {"s1", "s2"}
\* the load of the three-line file has returned with the ghost s2 stored
C16_Witness ==
    GhostLinkLoaded /\ \E g \in SegmentsNamed("s2") : IsGhost(g)

\* the input file has a bridge line of one of the kinds from x+ to y+
BridgeLine(kinds, x, y) ==
    \E j \in 1..Len(file) :
        /\ file[j].ok /\ Cols(j)[1] \in kinds
        /\ IF Cols(j)[1] \in {"E", "G"}
           THEN Len(Cols(j)) >= 4 /\ Cols(j)[3] = x \o "+" /\ Cols(j)[4] = y \o "+"
           ELSE /\ Len(Cols(j)) >= 5
                /\ Cols(j)[2] = x /\ Cols(j)[3] = "+" /\ Cols(j)[4] = y /\ Cols(j)[5] = "+"
\* an earlier Walk line of the file with the same steps, under the policy
\* that makes a Walk leave a ghost Link behind
GhostLinked(i) ==
    /\ parse_options.handle_missing_bridge = "CreateGhostLink"
    /\ \E j \in 1..(i - 1) : IsLine(j, "W", 7) /\ Cols(j)[7] = Cols(i)[7]
\* the load reported LinkNotFound for the step pair x+ -> y+ of line i
LinkNotFoundFor(i, x, y) ==
    \E m \in 1..Len(emitted) :
        /\ emitted[m].code = "LinkNotFound" /\ emitted[m].line = i
        /\ emitted[m].offender = x \o "+ -> " \o y \o "+"
\* every step pair of every Walk line gets LinkNotFound exactly when no
\* bridge of the given kinds connects it
StepsNeed(kinds) ==
    AfterLoad =>
        \A i \in 1..Len(file) : \A k \in 1..2 :
            (IsLine(i, "W", 7) /\ k < Len(ForwardSteps(i)) /\ ~GhostLinked(i)) =>
                (LinkNotFoundFor(i, ForwardSteps(i)[k], ForwardSteps(i)[k + 1])
                    <=> ~BridgeLine(kinds, ForwardSteps(i)[k], ForwardSteps(i)[k + 1]))

\* C17: a Walk step pair is connected by a Link, an Edge or a Gap with both
\* orientations and never by a Jump: LinkNotFound is reported for a pair
\* exactly when no Link, Edge or Gap connects it
C17_WalkStepBridges == StepsNeed({"L", "E", "G"})

\* the stored Links that carry the ghost flag
GhostLinks ==
    {gfa.records[i] : i \in {j \in 1..Len(gfa.records) :
        gfa.records[j].kind = "Link" /\ has_flag(gfa.records[j].tags, "ghost")}}
\* line i is a Walk line whose step pair k neither a Link, an Edge or a Gap
\* line nor an earlier Walk's ghost Link connects
Unconnected(i, k) ==
    /\ IsLine(i, "W", 7) /\ k < Len(ForwardSteps(i)) /\ ~GhostLinked(i)
    /\ ~BridgeLine({"L", "E", "G"}, ForwardSteps(i)[k], ForwardSteps(i)[k + 1])
\* the Walk of line i is stored
WalkKept(i) == \E r \in StoredAt(i) : r.kind = "Walk"

\* C18: a Walk step pair with no adjoining connection gets LinkNotFound;
\* CreateGhostLink stores a ghost Link with the pair's endpoints, its
\* orientations and overlap `*` and keeps the Walk, HardSkip does not store
\* the Walk, Ignore keeps the Walk and creates no Link
C18_MissingBridgePolicy ==
    AfterLoad =>
        \A i \in 1..Len(file) : \A k \in 1..2 :
            Unconnected(i, k) =>
                /\ LinkNotFoundFor(i, ForwardSteps(i)[k], ForwardSteps(i)[k + 1])
                /\ parse_options.handle_missing_bridge = "CreateGhostLink" =>
                       /\ WalkKept(i)
                       /\ \E l \in GhostLinks :
                              /\ l.from_segment = ForwardSteps(i)[k] /\ l.from_orientation
                              /\ l.to_segment = ForwardSteps(i)[k + 1] /\ l.to_orientation
                              /\ l.overlap = "*"
                /\ parse_options.handle_missing_bridge = "HardSkip" => StoredAt(i) = {}
                /\ parse_options.handle_missing_bridge = "Ignore" =>
                       /\ WalkKept(i)
                       /\ \A j \in 1..Len(gfa.records) :
                              gfa.records[j].kind = "Link"
                                  => IsLine(gfa.records[j].line_no, "L", 6)
\* a load under CreateGhostLink has kept a Walk whose pair only a Jump
\* connects and has stored the ghost Link for it
C18_Witness ==
    /\ AfterLoad /\ parse_options.handle_missing_bridge = "CreateGhostLink"
    /\ \E i \in 1..Len(file) :
           Unconnected(i, 1) /\ WalkKept(i) /\ BridgeLine({"J"}, "a", "b")
    /\ GhostLinks # {}

\* the lines of the input file for which the load has produced a diagnostic
\* of severity Error
ErrorLines ==
    {i \in 1..Len(file) :
        \E m \in 1..Len(emitted) : emitted[m].line = i /\ severity(emitted[m]) = "Error"}
\* line j of the input file has been handed to a record parser
Parsed(j) == \E k \in 1..Len(log) : log[k].idx = j

\* C19: after a load, a line for which a diagnostic of severity Error was
\* produced has no stored record, and every line after it has been parsed
C19_ErrorDropsLine ==
    AfterLoad =>
        \A i \in ErrorLines :
            /\ StoredAt(i) = {}
            /\ \A j \in (i + 1)..Len(file) : Parsed(j)
\* the weaker half that the code keeps: the lines after a line with an Error
\* diagnostic are still parsed
C19_ErrorThenContinues ==
    AfterLoad => \A i \in ErrorLines : \A j \in (i + 1)..Len(file) : Parsed(j)

\* the optional-field columns of line i of the input file
OptionalColumns(i) ==
    LET required == IF Cols(i)[1] = "S" THEN 3 ELSE 6
    IN  SubSeq(Cols(i), required + 1, Len(Cols(i)))
\* line i is a Segment or a Link line with a column tagged with a reserved
\* tag that is of another type than the table's, or on a record kind the
\* table does not allow
MisusesReserved(i, tag) ==
    /\ IsLine(i, "S", 3) \/ IsLine(i, "L", 6)
    /\ \E k \in 1..Len(OptionalColumns(i)) :
           LET it == SplitN(OptionalColumns(i)[k], 3, ":")
           IN  /\ Len(it) = 3 /\ it[1] = tag
               /\ \/ it[2] # ReservedFields[tag].type_
                  \/ Cols(i)[1] \notin ReservedFields[tag].allowed_records
\* the builder's messages hold a reserved-tag diagnostic for line i
ReservedReported(i, tag) ==
    \E m \in 1..Len(gfa.messages) :
        /\ gfa.messages[m].line = i /\ gfa.messages[m].offender = tag
        /\ gfa.messages[m].code \in {"UnexpectedReservedTagType",
                                      "InvalidOptionalFieldReservedTagType"}

\* C20: after a load, every line with an LN tag on a non-Segment record or
\* of a type other than integer has a reserved-tag diagnostic in the
\* builder's messages, whatever else the line carries; likewise for the
\* other reserved tags
C20_ReservedTagReported ==
    AfterLoad =>
        \A i \in 1..Len(file) : \A tag \in {"LN", "MQ"} :
            MisusesReserved(i, tag) => ReservedReported(i, tag)
\* what the code keeps: the misuse is reported when no column before the
\* misused tag is in error
C20_FirstTagError ==
    AfterLoad =>
        \A i \in 1..Len(file) : \A tag \in {"LN", "MQ"} :
            (MisusesReserved(i, tag)
                /\ SplitN(OptionalColumns(i)[1], 3, ":")[1] = tag)
                => ReservedReported(i, tag)

\* the optional columns of line i that carry a given tag, in column order
ColumnsTagged(i, tag) ==
    SelectSeq(OptionalColumns(i), LAMBDA c : SplitN(c, 3, ":")[1] = tag)
\* line i is a Segment or a Link line that carries a tag more than once
Repeats(i, tag) ==
    /\ IsLine(i, "S", 3) \/ IsLine(i, "L", 6)
    /\ Len(ColumnsTagged(i, tag)) >= 2
\* the value of the k-th column of line i that carries a tag
OccurrenceValue(i, tag, k) ==
    parse_optional_field(i, Cols(i)[1], ColumnsTagged(i, tag)[k]).field.v.value
\* line i has a DuplicateOptionalField diagnostic for a tag and its stored
\* record holds, for that tag, the value of the k-th occurrence
DuplicateKeeps(i, tag, k) ==
    /\ \E m \in 1..Len(emitted) :
           /\ emitted[m].code = "DuplicateOptionalField"
           /\ emitted[m].line = i /\ emitted[m].offender = tag
    /\ StoredAt(i) # {}
    /\ \A r \in StoredAt(i) :
           MapHas(r.tags, tag) /\ r.tags[tag] = OccurrenceValue(i, tag, k)

\* C21: after a load, a line that carries a tag more than once has a
\* DuplicateOptionalField diagnostic and its stored record holds the value of
\* the last occurrence of the tag
C21_LastOccurrenceWins ==
    AfterLoad =>
        \A i \in 1..Len(file) : \A tag \in {"ab", "LN"} :
            Repeats(i, tag) => DuplicateKeeps(i, tag, Len(ColumnsTagged(i, tag)))
\* what the code keeps: the value of the first occurrence
C21_FirstOccurrenceWins ==
    AfterLoad =>
        \A i \in 1..Len(file) : \A tag \in {"ab", "LN"} :
            Repeats(i, tag) => DuplicateKeeps(i, tag, 1)

\* the stored Paths
StoredPaths == {gfa.records[i] : i \in {j \in 1..Len(gfa.records) : gfa.records[j].kind = "Path"}}
\* line i is a Path line whose overlap column is given and does not hold one
\* entry fewer than the step column
OverlapCountOff(i) ==
    /\ IsLine(i, "P", 4) /\ Cols(i)[4] # "*"
    /\ Len(PathSteps(i)) # Len(SplitOn(Cols(i)[4], {","})) + 1
\* a stored Path has no overlaps or one fewer than it has steps
OverlapsFit(r) == r.overlaps = <<>> \/ Len(r.overlaps) = Len(r.steps) - 1
\* a Path line with a mismatched overlap column has the diagnostic and is
\* stored with no overlaps
MismatchDropsOverlaps ==
    \A i \in 1..Len(file) :
        OverlapCountOff(i) =>
            /\ \E m \in 1..Len(emitted) :
                   emitted[m].code = "PathOverlapLengthMismatch" /\ emitted[m].line = i
            /\ \A r \in StoredAt(i) : r.overlaps = <<>>

\* C22: after a load every stored Path has no overlaps or exactly one
\* overlap fewer than steps, and a Path line whose overlap column does not
\* hold one entry fewer than its step column has PathOverlapLengthMismatch
\* and is stored with no overlaps
C22_PathOverlapCount ==
    AfterLoad => (\A r \in StoredPaths : OverlapsFit(r)) /\ MismatchDropsOverlaps
\* the half that the code keeps: the mismatch diagnostic and the empty
\* overlap list
C22_MismatchDropsOverlaps == AfterLoad => MismatchDropsOverlaps

\* the overlap column of the Link or Containment line i
OverlapColumn(i) == IF Cols(i)[1] = "L" THEN Cols(i)[6] ELSE Cols(i)[7]
\* line i is a Link or a Containment line whose overlap is neither `*` nor
\* a CIGAR string
BadOverlap(i) ==
    /\ IsLine(i, "L", 6) \/ IsLine(i, "C", 7)
    /\ OverlapColumn(i) # "*" /\ ~is_valid_cigar(OverlapColumn(i))
\* line i has an InvalidCIGAR diagnostic and its record is stored
BadOverlapKept(i) ==
    /\ \E m \in 1..Len(emitted) :
           /\ emitted[m].code = "InvalidCIGAR" /\ emitted[m].line = i
           /\ emitted[m].offender = OverlapColumn(i)
    /\ StoredAt(i) # {}
\* the overlap column of the line a stored Link or Containment is written as
WrittenOverlap(r, version) ==
    LET columns == SplitOn(to_raw_line(r, version, gfa, FALSE), {"\t"})
    IN  IF r.kind = "Link" THEN columns[6] ELSE columns[7]

\* C23: after a load, a Link or Containment line whose overlap is neither
\* `*` nor a CIGAR string has InvalidCIGAR, is stored, and both its stored
\* overlap and the overlap it is written with are `*`
C23_InvalidCigarUnknown ==
    AfterLoad =>
        \A i \in 1..Len(file) :
            BadOverlap(i) =>
                /\ BadOverlapKept(i)
                /\ \A r \in StoredAt(i) :
                       /\ r.overlap = "*"
                       /\ \A version \in {"V1", "V1_2", "V2"} : WrittenOverlap(r, version) = "*"
\* what the code keeps: the diagnostic, the record, and the overlap as given
C23_InvalidCigarKept ==
    AfterLoad =>
        \A i \in 1..Len(file) :
            BadOverlap(i) =>
                /\ BadOverlapKept(i)
                /\ \A r \in StoredAt(i) : r.overlap = OverlapColumn(i)

\* the stored Gaps
StoredGaps == {gfa.records[i] : i \in {j \in 1..Len(gfa.records) : gfa.records[j].kind = "Gap"}}
\* the columns of the line a stored record is written as in a dialect, the
\* tags in either order
WrittenColumns(r, version, reverse) == SplitOn(to_raw_line(r, version, gfa, reverse), {"\t"})
\* a Gap is written as an L line with its distance in a DI tag
NarrowGap(r, reverse) ==
    LET columns == WrittenColumns(r, "V1", reverse)
    IN  /\ columns[1] = "L"
        /\ \E k \in 7..Len(columns) : columns[k] = "DI:i:" \o IntToStr(r.distance)
\* a Gap is written as a J line with its distance in the distance column
JumpGap(r, reverse) ==
    LET columns == WrittenColumns(r, "V1_2", reverse)
    IN  columns[1] = "J" /\ columns[6] = IntToStr(r.distance)
\* a Gap is written as a G line with its distance in the distance column
NativeGap(r, reverse) ==
    LET columns == WrittenColumns(r, "V2", reverse)
    IN  columns[1] = "G" /\ columns[5] = IntToStr(r.distance)

\* C24: every stored Gap, with or without a variance, is written as an L
\* line with its distance in a DI tag in the narrowest dialect, as a J line
\* with the distance column in the 1.2 dialect and as a G line in the wide
\* dialect
C24_GapDistanceWritten ==
    AfterLoad =>
        \A r \in StoredGaps : \A reverse \in BOOLEAN :
            NarrowGap(r, reverse) /\ JumpGap(r, reverse) /\ NativeGap(r, reverse)
\* what the code keeps: the J and G renderings of every Gap, and the L
\* rendering of a Gap that has no variance
C24_GapWithoutVariance ==
    AfterLoad =>
        \A r \in StoredGaps : \A reverse \in BOOLEAN :
            /\ JumpGap(r, reverse) /\ NativeGap(r, reverse)
            /\ ~r.variance.some => NarrowGap(r, reverse)

\* write_to_file has just returned
Written == disk_of.set /\ pc = "idle" /\ result.call = "write_to_file"
\* the pass a written line belongs to, by its record type
LinePass(l) ==
    CASE Ch(l, 1) = "H" -> 0
      [] Ch(l, 1) = "S" -> 1
      [] Ch(l, 1) \in {"L", "J", "C", "F", "E", "G"} -> 2
      [] OTHER -> 3
\* a record that the dialect written has no rendering for
Unrendered(r) ==
    r.kind \in {"Fragment", "OrderedGroup", "UnorderedGroup"} /\ disk_of.version # "V2"
\* the lines of the stored records of pass p that have a rendering, in
\* storage order
RenderedInPass(p, reverse) ==
    LET kept == SelectSeq(gfa.records, LAMBDA r : record_pass(r) = p /\ ~Unrendered(r))
    IN  [i \in 1..Len(kept) |-> to_raw_line(kept[i], disk_of.version, gfa, reverse)]
\* the stored records are not in pass order
StoredOutOfPassOrder ==
    \E i, j \in 1..Len(gfa.records) :
        i < j /\ record_pass(gfa.records[i]) > record_pass(gfa.records[j])

\* C25: the file written holds the Header lines, then the Segment lines,
\* then the bridge lines, then the trail lines, each group in storage order,
\* and a record with no rendering in the dialect written leaves no line: no
\* line is empty and every line starts with a record type and a column
C25_WriteOrder ==
    Written =>
        /\ \A i, j \in 1..Len(disk) : i < j => LinePass(disk[i]) <= LinePass(disk[j])
        /\ \A i \in 1..Len(disk) :
               /\ disk[i] # "" /\ Ch(disk[i], 1) \in RecordTypes
               /\ Len(SplitOn(disk[i], {"\t"})) >= 2
        /\ \E reverse \in BOOLEAN : \A p \in 0..3 :
               SelectSeq(disk, LAMBDA l : LinePass(l) = p) = RenderedInPass(p, reverse)
        /\ Len(disk) = Len(SelectSeq(gfa.records, LAMBDA r : ~Unrendered(r)))
\* a write in a narrow dialect of a builder that holds a Fragment, whose
\* records are stored out of pass order and whose file has lines of two
\* passes or more
C25_Witness ==
    /\ Written /\ disk_of.version # "V2" /\ StoredOutOfPassOrder
    /\ \E i \in 1..Len(gfa.records) : gfa.records[i].kind = "Fragment"
    /\ \E i, j \in 1..Len(disk) : LinePass(disk[i]) < LinePass(disk[j])

\* the segment names of the steps of the Path or Walk line i, in step order
TrailSteps(i) ==
    IF Cols(i)[1] = "P" THEN [k \in 1..Len(PathSteps(i)) |-> StepName(PathSteps(i)[k])]
    ELSE ForwardSteps(i)
\* line i is a Path or a Walk line with a step on a segment that no Segment
\* line declares
StepsOnMissing(i) ==
    /\ IsLine(i, "P", 4) \/ IsLine(i, "W", 7)
    /\ \E k \in 1..Len(TrailSteps(i)) : TrailSteps(i)[k] \notin DeclaredSegments
\* the names of the segments the steps of a stored Path or Walk refer to
SteppedNames(r) ==
    LET steps == IF r.kind = "Walk" THEN r.walk ELSE r.steps
    IN  [k \in 1..Len(steps) |->
            LET seg == find_segment(gfa, steps[k].segment_id)
            IN  IF seg.some THEN seg.v.name ELSE ""]
\* what the missing-segment policy makes of line i
MissingStepHandled(i) ==
    LET policy == parse_options.handle_missing_segment
    IN  /\ policy = "HardSkip" => StoredAt(i) = {}
        /\ policy = "SoftSkip" =>
               /\ StoredAt(i) # {}
               /\ \A r \in StoredAt(i) :
                      SteppedNames(r) = SelectSeq(TrailSteps(i), LAMBDA s : s \in DeclaredSegments)
        /\ policy = "CreateGhost" =>
               /\ StoredAt(i) # {}
               /\ \A r \in StoredAt(i) : SteppedNames(r) = TrailSteps(i)
               /\ \A k \in 1..Len(TrailSteps(i)) :
                      TrailSteps(i)[k] \notin DeclaredSegments =>
                          \E s \in SegmentsNamed(TrailSteps(i)[k]) : IsGhost(s)
        /\ policy = "Ignore" => StoredAt(i) # {}

\* C26: a load of a Path or Walk line with a step on a missing segment does
\* not abort, and after it HardSkip has dropped the line, SoftSkip has
\* stored the record with its other steps, CreateGhost has created a ghost
\* segment and kept the step, and Ignore has stored the record
C26_MissingStepPolicy ==
    /\ (calls = <<"parse:file">> /\ \E i \in 1..Len(file) : StepsOnMissing(i))
           => pc # "aborted"
    /\ AfterLoad => \A i \in 1..Len(file) : StepsOnMissing(i) => MissingStepHandled(i)
\* what the code keeps: the four outcomes for a load that returns
C26_WhenLoadReturns ==
    AfterLoad => \A i \in 1..Len(file) : StepsOnMissing(i) => MissingStepHandled(i)

\* the stored Segments
StoredSegments ==
    {gfa.records[i] : i \in {j \in 1..Len(gfa.records) : gfa.records[j].kind = "Segment"}}
\* the builder a fresh load of the same file ends with when sequences are
\* retained
Retaining == parse(NewParser, file, [parse_options EXCEPT !.store_sequences = TRUE]).g
\* the Segment that the retaining load stores for the line of r
Retained(r) ==
    CHOOSE s \in {Retaining.records[i] : i \in 1..Len(Retaining.records)} :
        s.kind = "Segment" /\ s.line_no = r.line_no

\* C27: after a load with retain-sequences disabled every stored Segment
\* has the sequence `*`, and its resolved length is the one the same Segment
\* has when the same file is loaded with retain-sequences enabled
C27_RetainOffKeepsLength ==
    (AfterLoad /\ ~parse_options.store_sequences) =>
        \A r \in StoredSegments :
            /\ r.sequence = "*"
            /\ \E i \in 1..Len(Retaining.records) :
                   Retaining.records[i].kind = "Segment"
                       /\ Retaining.records[i].line_no = r.line_no
            /\ get_length(r) = get_length(Retained(r))
\* a load with retain-sequences disabled has stored a Segment whose line
\* gives a sequence and no length, with a synthesized length tag
C27_Witness ==
    /\ AfterLoad /\ ~parse_options.store_sequences
    /\ \E r \in StoredSegments :
           /\ Retained(r).sequence = "ACGT" /\ ~MapHas(Retained(r).tags, "LN")
           /\ ~r.length.some
           /\ MapHas(r.tags, "LN") /\ get_length(r) = 4

\* the pass that admits a line of the input file, by its first character
\* (4 = none)
PassOf(text) ==
    IF text = "" \/ Ch(text, 1) = "#" THEN 4
    ELSE CASE Ch(text, 1) = "H" -> 0
           [] Ch(text, 1) = "S" -> 1
           [] Ch(text, 1) \in {"L", "J", "C", "F", "E", "G"} -> 2
           [] Ch(text, 1) \in {"P", "W", "O", "U"} -> 3
           [] OTHER -> 4
\* the first load is under way or has returned
InFirstLoad == calls = <<"parse:file">>

\* C28: during a load every line handed to a record parser is handed over
\* in the pass of its kind (Headers in pass 0, Segments in pass 1, bridges
\* in pass 2, trails in pass 3), never twice, in pass order and in file
\* order within a pass; empty lines and comments are handed to no parser
C28_OnePassPerLine ==
    InFirstLoad =>
        /\ \A k \in 1..Len(log) :
               /\ log[k].idx \in 1..Len(file)
               /\ PassOf(file[log[k].idx].text) = log[k].pass
        /\ \A k, l \in 1..Len(log) :
               k < l => \/ log[k].pass < log[l].pass
                        \/ log[k].pass = log[l].pass /\ log[k].idx < log[l].idx
\* a load has returned after it parsed a Segment line that came after a
\* Link line, skipped an empty line or a comment, and parsed once a line
\* that gave no record
C28_Witness ==
    /\ AfterLoad
    /\ \E k, l \in 1..Len(log) : k < l /\ log[k].idx > log[l].idx
    /\ \E i \in 1..Len(file) : PassOf(file[i].text) = 4
    /\ \E k \in 1..Len(log) : StoredAt(log[k].idx) = {}

\* the overlaps given in the Path line i
GivenOverlaps(i) == SplitOn(Cols(i)[4], {","})
\* line i is a Path line with one overlap fewer than steps
OverlapsInUse(i) ==
    /\ IsLine(i, "P", 4) /\ Cols(i)[4] # "*"
    /\ Len(PathSteps(i)) = Len(GivenOverlaps(i)) + 1
\* the stored Path of line i carries the overlaps of the line, and is
\* written with them in every dialect
OverlapsAsGiven(i) ==
    \A r \in StoredAt(i) :
        /\ r.overlaps = GivenOverlaps(i)
        /\ \A version \in {"V1", "V1_2", "V2"} :
               WrittenColumns(r, version, FALSE)[4] = Cols(i)[4]

\* C29: after a load with substitute-path-overlaps enabled, a stored Path
\* carries and is written with the overlaps its line gives: an overlap
\* given as `*` is `*` in the stored Path and in the written line
C29_OverlapsNotExported ==
    (AfterLoad /\ parse_options.substitute_path_overlaps) =>
        \A i \in 1..Len(file) : OverlapsInUse(i) => OverlapsAsGiven(i)
\* what the code keeps: the overlaps as given when substitution is off
C29_WithoutSubstitution ==
    (AfterLoad /\ ~parse_options.substitute_path_overlaps) =>
        \A i \in 1..Len(file) : OverlapsInUse(i) => OverlapsAsGiven(i)

\* the step is one in which is_step_valid is called
StepChecked == calls' = Append(calls, "is_step_valid") /\ result'.call = "is_step_valid"
\* the bridge kinds the arguments allow
AllowedKinds(a) ==
    (IF a.allow_links THEN {"Link"} ELSE {}) \cup (IF a.allow_jumps THEN {"Jump"} ELSE {})
        \cup (IF a.allow_edges THEN {"Edge"} ELSE {}) \cup (IF a.allow_gaps THEN {"Gap"} ELSE {})
\* the outgoing list of a Segment for a bridge kind
OutgoingOf(seg, kind) ==
    CASE kind = "Link" -> seg.outgoing_links
      [] kind = "Jump" -> seg.outgoing_jumps
      [] kind = "Edge" -> seg.outgoing_edges
      [] kind = "Gap" -> seg.outgoing_gaps
\* the stored bridges of an allowed kind that an outgoing list of the
\* from-segment holds and that have the to-segment and both orientations
MatchingBridges(a) ==
    {b \in {gfa.records[i] : i \in 1..Len(gfa.records)} :
        /\ b.kind \in AllowedKinds(a)
        /\ \E seg \in SegmentsNamed(a.from_segment_name) :
               \E k \in 1..Len(OutgoingOf(seg, b.kind)) : OutgoingOf(seg, b.kind)[k] = b.line_no
        /\ BridgeTo(b) = a.to_segment_name
        /\ BridgeFromOrientation(b) = a.from_orientation
        /\ BridgeToOrientation(b) = a.to_orientation}
\* the diagnostics the call has added
AddedByCall == SubSeq(gfa'.messages, Len(gfa.messages) + 1, Len(gfa'.messages))

CheckedIntervals(i) ==
    IF Cols(i)[1] = "E"
    THEN {<<StepName(Cols(i)[3]), Cols(i)[5], Cols(i)[6]>>,
          <<StepName(Cols(i)[4]), Cols(i)[7], Cols(i)[8]>>}
    ELSE {<<Cols(i)[2], Cols(i)[4], Cols(i)[5]>>}
\* every bound of line i, the fragment-relative ones included
AllBounds(i) ==
    IF Cols(i)[1] = "E" THEN {Cols(i)[k] : k \in 5..8} ELSE {Cols(i)[k] : k \in 4..7}
\* a bound as written: whether it ends with `$`, and its value
HasSentinel(b) == b # "" /\ Ch(b, Len(b)) = "$"
BoundText(b) == IF HasSentinel(b) THEN Prefix(b, Len(b) - 1) ELSE b
IsBound(b) == b # "" /\ ParseI32(BoundText(b)).some
BoundValue(b) == ParseI32(BoundText(b)).v
\* the resolved length of the stored segment of a name
LengthOf(name) == get_length(CHOOSE s \in SegmentsNamed(name) : TRUE)
\* what a checked interval of line i asks for, by diagnostic code
Asks(iv, code) ==
    /\ IsBound(iv[2]) /\ IsBound(iv[3])
    /\ \E b \in {iv[2], iv[3]} :
           CASE code = "InvalidIntervalPositionRange" -> BoundValue(b) > LengthOf(iv[1])
             [] code = "InvalidIntervalPositionSentinel" ->
                    HasSentinel(b) /\ BoundValue(b) # LengthOf(iv[1])
             [] code = "MissingIntervalPositionSentinel" ->
                    ~HasSentinel(b) /\ BoundValue(b) = LengthOf(iv[1])
IntervalCodes ==
    {"InvalidIntervalPositionRange", "InvalidIntervalPositionSentinel",
     "MissingIntervalPositionSentinel"}

\* C31: after a load, an Edge or Fragment line has a diagnostic of one of
\* the three interval codes exactly when a bound of an interval checked
\* against its segment (the Edge's two intervals, the Fragment's
\* segment-relative one) exceeds the length, carries `$` off the length, or
\* equals the length without `$`; the record is stored when every bound is
\* an integer and dropped when one is not
C31_IntervalChecks ==
    AfterLoad =>
        \A i \in 1..Len(file) :
            (IsLine(i, "E", 9) \/ IsLine(i, "F", 8)) =>
                /\ \A code \in IntervalCodes :
                       (\E m \in 1..Len(emitted) :
                            emitted[m].line = i /\ emitted[m].code = code)
                           <=> \E iv \in CheckedIntervals(i) : Asks(iv, code)
                /\ (StoredAt(i) # {}) <=> \A b \in AllBounds(i) : IsBound(b)
\* a load has stored an Edge with a bound beyond the length of its segment
\* and a Fragment whose fragment-relative bounds exceed every length, the
\* first with a range diagnostic and the second with none
C31_Witness ==
    /\ AfterLoad
    /\ \E i, j \in 1..Len(file) :
           /\ IsLine(i, "E", 9) /\ StoredAt(i) # {} /\ LengthOf("a") = 4
           /\ \E iv \in CheckedIntervals(i) : Asks(iv, "InvalidIntervalPositionRange")
           /\ IsLine(j, "F", 8) /\ StoredAt(j) # {} /\ Cols(j)[6] = "9"
           /\ \A m \in 1..Len(emitted) :
                  emitted[m].line = j => emitted[m].code \notin IntervalCodes

\* the stored bridges, and whether one leaves or enters a segment
StoredBridges ==
    {gfa.records[i] : i \in {j \in 1..Len(gfa.records) : gfa.records[j].kind \in BridgeKinds}}
HasOutgoing(seg) ==
    \E b \in StoredBridges :
        IF b.kind = "Containment" THEN b.container = seg.name ELSE BridgeFrom(b) = seg.name
HasIncoming(seg) ==
    \E b \in StoredBridges :
        IF b.kind = "Containment" THEN b.contained = seg.name ELSE BridgeTo(b) = seg.name
\* the load has reported a segment with a code
ReportedAs(seg, code) ==
    \E m \in 1..Len(emitted) : emitted[m].code = code /\ emitted[m].line = seg.line_no

\* C32: after a load, a stored Segment is reported as IsolatedSegment
\* exactly when no stored bridge leaves it and none enters it, and as
\* DeadEndTip exactly when none leaves it or none enters it; the count of
\* find_dead_ends is the number of dead-end segments plus the number of
\* isolated ones
C32_IsolatedAndDeadEnds ==
    AfterLoad =>
        /\ \A seg \in StoredSegments :
               /\ ReportedAs(seg, "IsolatedSegment")
                      <=> ~HasOutgoing(seg) /\ ~HasIncoming(seg)
               /\ ReportedAs(seg, "DeadEndTip")
                      <=> ~HasOutgoing(seg) \/ ~HasIncoming(seg)
        /\ find_dead_ends_count(gfa)
               = Len(find_dead_ends(gfa)) + Len(find_isolated_segments(gfa))
\* what the code keeps: the same for the bridges the adjacency lists of the
\* segment hold
C32_ByAdjacencyLists ==
    AfterLoad =>
        /\ \A seg \in StoredSegments :
               /\ ReportedAs(seg, "IsolatedSegment")
                      <=> get_outgoing_bridges(seg) = <<>> /\ get_incoming_bridges(seg) = <<>>
               /\ ReportedAs(seg, "DeadEndTip")
                      <=> get_outgoing_bridges(seg) = <<>> \/ get_incoming_bridges(seg) = <<>>
        /\ find_dead_ends_count(gfa)
               = Len(find_dead_ends(gfa)) + Len(find_isolated_segments(gfa))

\* the adjacency lists of a segment, each with the kind of record it holds
\* and the side of the record that names the segment
AdjacencyLists(seg) ==
    {<<seg.outgoing_links, "Link", "from">>, <<seg.incoming_links, "Link", "to">>,
     <<seg.outgoing_jumps, "Jump", "from">>, <<seg.incoming_jumps, "Jump", "to">>,
     <<seg.outgoing_edges, "Edge", "from">>, <<seg.incoming_edges, "Edge", "to">>,
     <<seg.outgoing_gaps, "Gap", "from">>, <<seg.incoming_gaps, "Gap", "to">>,
     <<seg.containments, "Containment", "from">>, <<seg.contained_by, "Containment", "to">>,
     <<seg.fragments, "Fragment", "from">>}
\* the segment a stored record names on a side
EndpointOf(r, side) ==
    CASE r.kind = "Fragment" -> r.segment_name
      [] r.kind = "Containment" -> IF side = "from" THEN r.container ELSE r.contained
      [] OTHER -> IF side = "from" THEN BridgeFrom(r) ELSE BridgeTo(r)
\* a line number of an adjacency list of a segment that no stored record of
\* the kind names the segment with
Dangling(seg, n, kind, side) ==
    ~\E r \in StoredAt(n) : r.kind = kind /\ EndpointOf(r, side) = seg.name

\* C33: whenever no operation is under way, every line number in an
\* adjacency list of a stored Segment is the line number of a stored record
\* of the kind of the list that names the segment as that endpoint
C33_NoDanglingBackReferences ==
    pc = "idle" =>
        \A seg \in StoredSegments : \A l \in AdjacencyLists(seg) :
            \A k \in 1..Len(l[1]) : ~Dangling(seg, l[1][k], l[2], l[3])
\* what the code keeps: the same for the lists of Links
C33_LinkBackReferences ==
    pc = "idle" =>
        \A seg \in StoredSegments : \A l \in AdjacencyLists(seg) :
            l[2] = "Link" => \A k \in 1..Len(l[1]) : ~Dangling(seg, l[1][k], l[2], l[3])

\* the part of the builder a failed call has to leave alone
Graph(g) ==
    [records |-> g.records, namespace |-> g.namespace,
     records_index |-> g.records_index, namespace_index |-> g.namespace_index]
\* a step is an add_line that returns diagnostics
AddLineFails ==
    /\ calls' = Append(calls, "add_line")
    /\ pc' = "idle"
    /\ ~result'.ok
\* C34: an add_line that returns diagnostics leaves the stored records, the
\* adjacency lists of the segments, the name registry and both indexes as
\* they were before the call
C34_FailedAddLineChangesNothing ==
    [][AddLineFails => Graph(gfa') = Graph(gfa)]_vars
\* what the code keeps: a failed add_line removes no record and no name
C34_FailedAddLineRemovesNothing ==
    [][AddLineFails =>
          /\ Len(gfa'.records) >= Len(gfa.records)
          /\ \A i \in 1..Len(gfa.records) :
                 /\ gfa'.records[i].kind = gfa.records[i].kind
                 /\ gfa'.records[i].line_no = gfa.records[i].line_no]_vars

\* C35: no load aborts: whatever the lines and the options, the load never
\* stops without returning
C35_LoadNeverAborts == pc # "aborted"
\* what the code keeps: the load into a fresh builder aborts only on a line
\* whose first column is longer than one character, or under Ignore on a
\* Path line with a step on a segment that is not stored
C35_AbortsOnlyOn ==
    pc = "aborted" /\ calls = <<"parse:file">> =>
        \/ \E i \in 1..Len(file) : file[i].ok /\ Len(Cols(i)[1]) > 1
        \/ /\ parse_options.handle_missing_segment = "Ignore"
           /\ \E i \in 1..Len(file) : IsLine(i, "P", 3)

\* line i is a bridge line from the segment c to itself
SelfBridgeLine(i) ==
    /\ file[i].ok
    /\ \/ Cols(i)[1] \in {"L", "J", "C"} /\ Cols(i)[2] = "c" /\ Cols(i)[4] = "c"
       \/ Cols(i)[1] \in {"E", "G"} /\ StepName(Cols(i)[3]) = "c" /\ StepName(Cols(i)[4]) = "c"
\* the code of the self-loop diagnostic of a bridge line
SelfLoopCode(i) == IF Cols(i)[1] = "C" THEN "SelfContainment" ELSE "SelfBridge"
\* the stored ghost segments
GhostSegments == {seg \in StoredSegments : has_flag(seg.tags, "ghost")}
\* the file has self-bridges on c and no line declares c
SelfBridgeOnMissing ==
    /\ "c" \notin DeclaredSegments
    /\ \E i \in 1..Len(file) : SelfBridgeLine(i)

\* C36: after a load under CreateGhost of a file whose bridges go from the
\* undeclared segment c to itself, one ghost segment is stored, every such
\* bridge is stored with both endpoints naming it, and its line carries the
\* self-loop diagnostic
C36_OneGhostForSelfBridge ==
    AfterLoad /\ SelfBridgeOnMissing =>
        /\ Cardinality(GhostSegments) = 1
        /\ \A i \in 1..Len(file) :
               SelfBridgeLine(i) =>
                   /\ \E r \in StoredAt(i) :
                          /\ EndpointOf(r, "from") = EndpointOf(r, "to")
                          /\ \E seg \in GhostSegments : seg.name = EndpointOf(r, "from")
                   /\ \E m \in 1..Len(emitted) :
                          emitted[m].line = i /\ emitted[m].code = SelfLoopCode(i)
\* what the code keeps: the same when a Segment line declares c
C36_SelfBridgeOnDeclared ==
    AfterLoad /\ "c" \in DeclaredSegments =>
        /\ GhostSegments = {}
        /\ \A i \in 1..Len(file) :
               SelfBridgeLine(i) =>
                   /\ \E r \in StoredAt(i) :
                          EndpointOf(r, "from") = "c" /\ EndpointOf(r, "to") = "c"
                   /\ \E m \in 1..Len(emitted) :
                          emitted[m].line = i /\ emitted[m].code = SelfLoopCode(i)

\* the stored ghost Links of a step pair, and the LinkNotFound diagnostics
\* of the load for it, by position
GhostLinksOf(x, y) ==
    {i \in 1..Len(gfa.records) :
        /\ gfa.records[i] \in GhostLinks
        /\ gfa.records[i].from_segment = x /\ gfa.records[i].from_orientation
        /\ gfa.records[i].to_segment = y /\ gfa.records[i].to_orientation}
LinkNotFoundOf(x, y) ==
    {m \in 1..Len(emitted) :
        /\ emitted[m].code = "LinkNotFound"
        /\ emitted[m].offender = x \o "+ -> " \o y \o "+"}

\* C37: after a load under CreateGhostLink, the step pair a+ -> b+ has at
\* most one ghost Link and at most one LinkNotFound diagnostic, however many
\* Walk steps have it
C37_OneGhostLinkPerPair ==
    AfterLoad /\ parse_options.handle_missing_bridge = "CreateGhostLink" =>
        /\ Cardinality(GhostLinksOf("a", "b")) <= 1
        /\ Cardinality(LinkNotFoundOf("a", "b")) <= 1
\* what the code keeps: one ghost Link for each LinkNotFound diagnostic
C37_OneGhostLinkPerStep ==
    AfterLoad /\ parse_options.handle_missing_bridge = "CreateGhostLink" =>
        Cardinality(GhostLinksOf("a", "b")) = Cardinality(LinkNotFoundOf("a", "b"))

\* the stored Paths and Walks, and the steps of one
StoredTrails ==
    {gfa.records[i] : i \in {j \in 1..Len(gfa.records) : gfa.records[j].kind \in {"Path", "Walk"}}}
StepsOf(r) == IF r.kind = "Walk" THEN r.walk ELSE r.steps
\* every step of every stored Path and Walk has the line number of a stored
\* Segment for its segment id
StepsIdentifySegments ==
    \A r \in StoredTrails : \A k \in 1..Len(StepsOf(r)) :
        \E seg \in StoredSegments : seg.line_no = StepsOf(r)[k].segment_id

\* C38: after a load under any missing-segment policy, the segment id of
\* every step of every stored Path and Walk is the line number of a stored
\* Segment
C38_StepsIdentifySegments == AfterLoad => StepsIdentifySegments
\* what the code keeps: the same under every policy but Ignore
C38_UnlessIgnore ==
    AfterLoad /\ parse_options.handle_missing_segment # "Ignore" => StepsIdentifySegments

\* the first Header line of the file and the version text it gives
FirstHeaders ==
    {i \in 1..Len(file) : IsLine(i, "H", 2) /\ \A j \in 1..(i - 1) : ~IsLine(j, "H", 1)}
VersionText(i) == From(Cols(i)[2], 6)
\* the dialect a version text stands for
DialectOf(text) ==
    CASE text \in {"1", "1.0"} -> "V1"
      [] text = "1.1" -> "V1_1"
      [] text = "1.2" -> "V1_2"
      [] text \in {"2", "2.0"} -> "V2"
\* the Header of line i was accepted without UnknownVersion
VersionAccepted(i) ==
    ~\E m \in 1..Len(emitted) : emitted[m].line = i /\ emitted[m].code = "UnknownVersion"
\* the Segment lines of the file were read in the layout of a dialect
ReadInLayoutOf(dialect) ==
    \A j \in 1..Len(file) : \A seg \in StoredAt(j) :
        seg.kind = "Segment" /\ Len(Cols(j)) >= 4 =>
            IF dialect = "V2"
            THEN seg.sequence = Cols(j)[4] /\ seg.length = Some(2)
            ELSE seg.sequence = Cols(j)[3]

\* C39: after a load, a first Header accepted without UnknownVersion has
\* selected the dialect its version text stands for (`1` and `1.0` the
\* 1.0 dialect, `1.1`, `1.2`, `2` and `2.0` the wide one), and the Segment
\* lines were read in the layout of that dialect
C39_AcceptedVersionSelectsDialect ==
    AfterLoad =>
        \A i \in FirstHeaders :
            VersionAccepted(i) =>
                /\ gfa.version = DialectOf(VersionText(i))
                /\ ReadInLayoutOf(DialectOf(VersionText(i)))
\* what the code keeps: the same for the version texts with a minor number
C39_FullVersionSelectsDialect ==
    AfterLoad =>
        \A i \in FirstHeaders :
            VersionAccepted(i) /\ VersionText(i) \in {"1.0", "1.1", "1.2", "2.0"} =>
                /\ gfa.version = DialectOf(VersionText(i))
                /\ ReadInLayoutOf(DialectOf(VersionText(i)))

\* the number of records of a kind a builder holds
CountOf(g, kind) == Len(SelectSeq(g.records, LAMBDA r : r.kind = kind))
\* the builder that was written: the one the load of the file leaves
WrittenBuilder == parse(NewParser, file, parse_options).g
\* the output of the write in the wide dialect has been loaded into a fresh
\* builder
Reloaded == pc = "idle" /\ calls = <<"parse:disk">> /\ disk_of.version = "V2"

\* C40: a builder written in the wide dialect and reloaded holds as many
\* OrderedGroups and as many UnorderedGroups as the one written, and an
\* OrderedGroup is written as a line of kind O
C40_GroupsRoundTrip ==
    Reloaded =>
        /\ CountOf(gfa, "OrderedGroup") = CountOf(WrittenBuilder, "OrderedGroup")
        /\ CountOf(gfa, "UnorderedGroup") = CountOf(WrittenBuilder, "UnorderedGroup")
        /\ CountOf(WrittenBuilder, "OrderedGroup")
               = Len(SelectSeq(disk, LAMBDA l : Ch(l, 1) = "O"))
\* what the code keeps: the number of groups of both kinds together
C40_GroupsKept ==
    Reloaded =>
        CountOf(gfa, "OrderedGroup") + CountOf(gfa, "UnorderedGroup")
            = CountOf(WrittenBuilder, "OrderedGroup") + CountOf(WrittenBuilder, "UnorderedGroup")

====
